---- MODULE Spec2Model ----
(***************************************************************************)
(* A model of the toi validator combinator engine (packages/toi): the      *)
(* ValidationError type, wrap / allow / transform, required / optional,    *)
(* the `and` composition, and the two aggregators array.items and obj.keys.*)
(*                                                                         *)
(* JavaScript values are records tagged by `t`.  Objects, arrays and       *)
(* errors live in `heap` (a sequence; an address is an index into it), so  *)
(* that reference identity (===) is address identity.  Numbers are kept in *)
(* tenths (Num(31) is 3.1) so that Math.trunc has something to do.         *)
(***************************************************************************)
EXTENDS Integers, Sequences, FiniteSets, TLC

RECURSIVE Apply(_, _, _, _)

----------------------------------------------------------------------------
(* Bounds of the model.                                                    *)

MaxLen == 3

----------------------------------------------------------------------------
(* JavaScript values.                                                      *)

Null == [t |-> "null"]
Undef == [t |-> "undefined"]
NaN == [t |-> "nan"]
Hole == [t |-> "hole"]
None == [t |-> "none"]
Num(n) == [t |-> "num", n |-> n]
Str(s) == [t |-> "str", s |-> s]
Bool(b) == [t |-> "bool", b |-> b]
Ref(a) == [t |-> "ref", addr |-> a]

IsRef(x) == x.t = "ref"

\* The === operator: NaN is not equal to itself, references compare by address.
StrictEq(x, y) == x # NaN /\ x = y

\* The ! operator's notion of a falsy value.
Falsy(x) ==
    \/ x \in {Null, Undef, NaN}
    \/ x = Num(0)
    \/ x = Str("")
    \/ x = Bool(FALSE)

\* typeof
TypeOf(x) ==
    CASE x.t \in {"num", "nan"} -> "number"
      [] x.t = "str" -> "string"
      [] x.t = "bool" -> "boolean"
      [] x.t = "undefined" -> "undefined"
      [] OTHER -> "object"

\* Math.trunc on a number kept in tenths.
Trunc(x) ==
    IF x.t = "num"
    THEN Num(IF x.n >= 0 THEN (x.n \div 10) * 10 ELSE 0 - (((0 - x.n) \div 10) * 10))
    ELSE NaN

----------------------------------------------------------------------------
(* Heap objects.                                                           *)

EmptyProps == [k \in {} |-> Undef]

\* An object: its own properties, which of them are not enumerable, and the
\* properties it inherits.
HiddenObj(props, hidden, proto) ==
    [k |-> "obj", props |-> props, hidden |-> hidden, proto |-> proto]

\* A plain object: every own property is enumerable.
Obj(props, proto) == HiddenObj(props, {}, proto)

Arr(elems) == [k |-> "arr", elems |-> elems]

\* new Array(n): n holes.
NewArray(n) == Arr([i \in 1..n |-> Hole])

\* new ValidationError(message, value, reasons)
ValidationError(message, value, reasons) ==
    [k |-> "ValidationError", message |-> message, value |-> value, reasons |-> reasons]

\* new TestError(): an error that is not a ValidationError.
TestError == [k |-> "TestError"]

\* The TypeError of calling value.match on a value that has no such method, and
\* the SyntaxError of JSON.parse: errors that are not ValidationErrors either.
TypeError == [k |-> "TypeError"]
SyntaxError == [k |-> "SyntaxError"]

\* value.length of an array.
Length(h, x) == IF IsRef(x) /\ h[x.addr].k = "arr" THEN Len(h[x.addr].elems) ELSE 0

\* value[index] of an array, index counted from 0; a hole reads as undefined.
ElemAt(h, x, index) ==
    LET e == h[x.addr].elems[index + 1]
    IN IF e = Hole THEN Undef ELSE e

\* A faulty HasOwn: only the enumerable own properties are seen.
HasOwnEnumerable(h, x, key) ==
    /\ IsRef(x)
    /\ h[x.addr].k = "obj"
    /\ key \in DOMAIN h[x.addr].props \ h[x.addr].hidden

\* Object.getOwnPropertyDescriptor(value, key) is not undefined.
HasOwn(h, x, key) ==
    /\ IsRef(x)
    /\ h[x.addr].k = "obj"
    /\ key \in DOMAIN h[x.addr].props

\* value[key]: the own property, else the inherited one, else undefined.
Get(h, x, key) ==
    IF ~(IsRef(x) /\ h[x.addr].k = "obj") THEN Undef
    ELSE IF key \in DOMAIN h[x.addr].props THEN h[x.addr].props[key]
    ELSE IF key \in DOMAIN h[x.addr].proto THEN h[x.addr].proto[key]
    ELSE Undef

\* target[index] = x on an array, index counted from 0.
SetElem(h, target, index, x) ==
    [h EXCEPT ![target.addr].elems[index + 1] = x]

\* target[key] = x on an object.
SetProp(h, target, key, x) ==
    [h EXCEPT ![target.addr].props = (key :> x) @@ @]

\* value instanceof ValidationError
IsValidationError(h, x) == IsRef(x) /\ h[x.addr].k = "ValidationError"

----------------------------------------------------------------------------
(* Outcomes of a call: a returned value or a thrown one, with the heap and *)
(* the log of invocations as the call left them.                           *)

Return(x, h, c) == [tag |-> "return", val |-> x, heap |-> h, calls |-> c]

\* throw new <object>: the object is allocated and its reference thrown.
ThrowNew(object, h, c) ==
    [tag |-> "throw", val |-> Ref(Len(h) + 1), heap |-> Append(h, object), calls |-> c]

\* One entry of the invocation log.
Invoked(site, v, x) == [site |-> site, v |-> v, arg |-> x]

----------------------------------------------------------------------------
(* Validators, as data.  A validator is what wrap() returns; `kind` says   *)
(* what function was wrapped.                                              *)

\* wrap(name, allow(bool, failure))
AllowValidator(name, failure) == [kind |-> "allow", name |-> name, failure |-> failure]

\* wrap(name, transform(transformer))
TransformValidator(name) == [kind |-> "transform", name |-> name]

\* wrap(name, func) for a func written out by hand
WrapValidator(name) == [kind |-> "wrap", name |-> name]

\* first.and(second)
And(first, second) == [kind |-> "and", first |-> first, second |-> second]

\* array.items(items)
Items(items) == [kind |-> "items", items |-> items]

\* obj.keys(structure, { missing }); structure in its key enumeration order
Keys(structure, missing) == [kind |-> "keys", structure |-> structure, missing |-> missing]

\* obj.and(fields)
ObjAnd(fields) == [kind |-> "obj.and", fields |-> fields]

StrIs == AllowValidator("str.is", <<"value is not string">>)
NumIs == AllowValidator("num.is", <<"value is not a number">>)
NumIsNaN == AllowValidator("num.isNaN", <<"value is not a number type">>)
NumInteger == TransformValidator("num.integer")
AnyIs == TransformValidator("any.is")
Required == WrapValidator("required")
Optional == WrapValidator("optional")
\* wrap("errortest", () => { throw new TestError(); })
ErrorTest == WrapValidator("errortest")
\* a caller's predicate and a caller's transformer that throw a TestError
DefectAllow == AllowValidator("defect", <<"never">>)
DefectTransform == TransformValidator("defect")
\* toi.str.regex(/^[abc]$/i)
StrRegex == TransformValidator("str.regex")
\* toix.json.parse()
JsonParse == TransformValidator("json.parse")
\* The core validators the DynamoDB decoders are built of.
ObjIs == AllowValidator("obj.is", <<"value is not an object type">>)
ObjIsPlain ==
    AllowValidator("obj.isplain",
                   <<"value is not an object or its prototype is not Object.prototype">>)
BoolIs == AllowValidator("bool.is", <<"value is not a boolean">>)
ArrayIs == AllowValidator("array.is", <<"value is not an array">>)
\* toi.array.min(1)
ArrayMin == AllowValidator("array.min", <<"value.length is smaller than ", "1">>)
\* toix.str.isbase64("rfc4648")
IsBase64 == AllowValidator("str.isbase64", <<"value is not a valid rfc4648 base64">>)

\* obj.xor(fields)
Xor(fields) ==
    [kind |-> "allow", name |-> "obj.xor", fields |-> fields,
     failure |-> <<"value must have only one field present of ">> \o fields]

\* The transformers of the DynamoDB decoders: nullable(), num.format(),
\* map.properKeys() and the pick() of each tag.
Nullable == TransformValidator("dynamo.nullable")
NumFormat == TransformValidator("dynamo.num.format")
ProperKeys == TransformValidator("dynamo.map.properKeys")
Pick(name, tag) == [kind |-> "transform", name |-> name, tag |-> tag]

----------------------------------------------------------------------------
(* The predicates and transformers the validators above wrap.              *)

\* A set as a sequence, in some order.
RECURSIVE SeqOf(_)
SeqOf(S) ==
    IF S = {} THEN <<>>
    ELSE LET k == CHOOSE k \in S : TRUE IN <<k>> \o SeqOf(S \ {k})

\* An object whose own enumerable properties were created in the order given.
OrderedObj(props, order) ==
    [k |-> "obj", props |-> props, hidden |-> {}, proto |-> EmptyProps, order |-> order]

\* Object.keys(value) as the array it is: the own enumerable keys in creation
\* order, where the object records one.
KeysArray(h, x) ==
    IF "order" \in DOMAIN h[x.addr]
    THEN h[x.addr].order
    ELSE SeqOf(DOMAIN h[x.addr].props \ h[x.addr].hidden)

\* keys.indexOf(key) + 1: the position of key counted from 1, or 0.
IndexOfPlusOne(keys, key) ==
    IF \E i \in 1..Len(keys) : keys[i] = key
    THEN CHOOSE i \in 1..Len(keys) : keys[i] = key /\ \A j \in 1..(i - 1) : keys[j] # key
    ELSE 0

\* numbers.reduce((a, i) => a + i, 0)
RECURSIVE Sum(_)
Sum(numbers) == IF Len(numbers) = 0 THEN 0 ELSE Head(numbers) + Sum(Tail(numbers))

\* xorValue of obj.xor: the sum of valueKeys.indexOf(field) + 1 over the fields.
XorValue(fields, keys) ==
    Sum([i \in 1..Len(fields) |-> IndexOfPlusOne(keys, fields[i])])

\* bool(value) of each allow-validator; a defect throws instead of answering.
CallBool(v, x, h, c) ==
    CASE v.name = "str.is" -> Return(Bool(TypeOf(x) = "string"), h, c)
      [] v.name = "num.is" -> Return(Bool(TypeOf(x) = "number" /\ x # NaN), h, c)
      [] v.name = "num.isNaN" -> Return(Bool(TypeOf(x) = "number"), h, c)
      [] v.name = "obj.is" -> Return(Bool(x # Null /\ TypeOf(x) = "object"), h, c)
      [] v.name = "obj.isplain" ->
            Return(Bool(/\ IsRef(x)
                        /\ h[x.addr].k = "obj"
                        /\ "__proto__" \notin DOMAIN h[x.addr].props
                        /\ h[x.addr].proto = EmptyProps), h, c)
      [] v.name = "bool.is" -> Return(Bool(TypeOf(x) = "boolean"), h, c)
      [] v.name = "array.is" -> Return(Bool(IsRef(x) /\ h[x.addr].k = "arr"), h, c)
      [] v.name = "array.min" -> Return(Bool(Length(h, x) >= 1), h, c)
      [] v.name = "obj.xor" -> Return(Bool(XorValue(v.fields, KeysArray(h, x)) = 1), h, c)
      [] v.name = "str.isbase64" ->
            IF x.t # "str" THEN ThrowNew(TypeError, h, c)
            ELSE Return(Bool(x.s \in {"", "YQ=="}), h, c)
      [] OTHER -> ThrowNew(TestError, h, c)

\* Number(value) as Math.trunc applies it to a primitive.
ToNumber(x) ==
    CASE x.t = "num" -> x
      [] x.t = "str" -> IF x.s = "" THEN Num(0) ELSE NaN
      [] x.t = "bool" -> IF x.b THEN Num(10) ELSE Num(0)
      [] x.t = "null" -> Num(0)
      [] OTHER -> NaN

\* value.match(/^[abc]$/i) of a string is not null.
Matches(x) == x.s \in {"a", "b", "c", "A", "B", "C"}

\* JSON.parse(value) throws a SyntaxError: of the primitives, numbers and
\* booleans read back as themselves; NaN, "" and words like "a" are no JSON.
NoJson(x) == x.t \notin {"num", "bool"}

\* The test of nullable(): an object whose only own property is NULL, an
\* enumerable data property holding true. (An array owns "length" at least.)
IsNullRecord(h, x) ==
    /\ IsRef(x)
    /\ h[x.addr].k = "obj"
    /\ DOMAIN h[x.addr].props = {"NULL"}
    /\ "NULL" \notin h[x.addr].hidden
    /\ h[x.addr].props["NULL"] = Bool(TRUE)

\* The ValidationError properKeys() makes of keys, some of them empty: its
\* reasons hold an error at the position of each empty key.
ProperKeysThrow(x, h, c, keys, bad) ==
    ThrowNew(ValidationError(<<"map has improper keys">>, x, Ref(Len(h) + Cardinality(bad) + 1)),
             Append(h \o [n \in 1..Cardinality(bad) |->
                            ValidationError(<<"key at position is not a string or is empty">>,
                                            Str(""), Undef)],
                    Arr([i \in 1..Len(keys) |->
                            IF i \in bad
                            THEN Ref(Len(h) + Cardinality({j \in bad : j <= i}))
                            ELSE Hole])),
             c)

\* properKeys() on the keys of the value
ProperKeysOn(x, h, c, keys) ==
    IF \A i \in 1..Len(keys) : keys[i] # ""
    THEN Return(x, h, c)
    ELSE ProperKeysThrow(x, h, c, keys, {i \in 1..Len(keys) : keys[i] = ""})

\* The transformer of map.properKeys(): an empty own key makes a
\* ValidationError.
ProperKeysFn(x, h, c) == ProperKeysOn(x, h, c, KeysArray(h, x))

\* Buffer.from(text, "base64")
Buffer(text) == [k |-> "Buffer", from |-> text]

\* texts.map(b => Buffer.from(b, "base64")): the buffers, then the array of them.
BufferSet(h, c, texts) ==
    Return(Ref(Len(h) + Len(texts) + 1),
           Append(h \o [i \in 1..Len(texts) |-> Buffer(texts[i])],
                  Arr([i \in 1..Len(texts) |-> Ref(Len(h) + i)])),
           c)

\* transformer(value) of each transform-validator.
CallTransformer(v, x, h, c) ==
    CASE v.name = "num.integer" -> Return(Trunc(ToNumber(x)), h, c)
      [] v.name = "any.is" -> Return(x, h, c)
      [] v.name = "str.regex" ->
            IF x.t # "str" THEN ThrowNew(TypeError, h, c)
            ELSE IF Matches(x) THEN Return(x, h, c)
            ELSE ThrowNew(ValidationError(<<"value does not match ", "/^[abc]$/i">>, x, Undef),
                          h, c)
      [] v.name = "json.parse" ->
            IF NoJson(x)
            THEN LET h1 == Append(h, SyntaxError)
                 IN ThrowNew(ValidationError(<<"invalid json">>, x, Ref(Len(h1))), h1, c)
            ELSE Return(x, h, c)
      [] v.name = "dynamo.nullable" ->
            IF IsNullRecord(h, x) THEN Return(Null, h, c) ELSE Return(x, h, c)
      [] v.name = "dynamo.num.format" ->
            IF x.t # "str" THEN ThrowNew(TypeError, h, c)
            ELSE IF x.s \in {"0", "1", "-1.5"} THEN Return(x, h, c)
            ELSE ThrowNew(ValidationError(<<"value does not match ", "/^(0|0.0|...)$/">>,
                                          x, Undef), h, c)
      [] v.name = "dynamo.map.properKeys" -> ProperKeysFn(x, h, c)
      [] v.name \in {"dynamo.s", "dynamo.ss", "dynamo.n", "dynamo.ns", "dynamo.bool",
                     "dynamo.l", "dynamo.m"} ->
            Return(Get(h, x, v.tag), h, c)
      [] v.name = "dynamo.b" ->
            Return(Ref(Len(h) + 1), Append(h, Buffer(Get(h, x, v.tag))), c)
      [] v.name = "dynamo.bs" -> BufferSet(h, c, h[Get(h, x, v.tag).addr].elems)
      [] OTHER -> ThrowNew(TestError, h, c)

----------------------------------------------------------------------------
(* allow, transform, required, optional.                                   *)

\* A faulty Allow: the predicate is asked before null and undefined are let through.
AllowEager(v, x, h, c) ==
    LET r == CallBool(v, x, h, Append(c, Invoked("bool", v, x)))
    IN IF r.tag = "throw" THEN r
       ELSE IF x = Undef \/ x = Null \/ r.val = Bool(TRUE) THEN Return(x, r.heap, r.calls)
       ELSE ThrowNew(ValidationError(v.failure, x, Undef), r.heap, r.calls)

\* A faulty Allow: the ValidationError does not carry the value that failed.
AllowBare(v, x, h, c) ==
    IF x = Undef \/ x = Null
    THEN Return(x, h, c)
    ELSE LET r == CallBool(v, x, h, Append(c, Invoked("bool", v, x)))
         IN IF r.tag = "throw" THEN r
            ELSE IF r.val = Bool(TRUE) THEN Return(x, r.heap, r.calls)
            ELSE ThrowNew(ValidationError(v.failure, Undef, Undef), r.heap, r.calls)

\* The function allow(bool, failure) returns.
Allow(v, x, h, c) ==
    IF x = Undef \/ x = Null
    THEN Return(x, h, c)
    ELSE LET r == CallBool(v, x, h, Append(c, Invoked("bool", v, x)))
         IN IF r.tag = "throw" THEN r
            ELSE IF r.val = Bool(TRUE) THEN Return(x, r.heap, r.calls)
            ELSE ThrowNew(ValidationError(v.failure, x, Undef), r.heap, r.calls)

\* The function transform(transformer) returns.
Transform(v, x, h, c) ==
    IF x = Null \/ x = Undef
    THEN Return(x, h, c)
    ELSE CallTransformer(v, x, h, Append(c, Invoked("transformer", v, x)))

\* A faulty Func: required() rejects every falsy value.
FuncFalsy(v, x, h, c) ==
    CASE v.name = "required" ->
            IF Falsy(x)
            THEN ThrowNew(ValidationError(<<"value is null or undefined">>, x, Undef), h, c)
            ELSE Return(x, h, c)
      [] v.name = "optional" -> Return(x, h, c)
      [] OTHER -> ThrowNew(TestError, h, c)

\* The functions wrapped by required(), optional() and the errortest validator.
Func(v, x, h, c) ==
    CASE v.name = "required" ->
            IF x = Undef \/ x = Null
            THEN ThrowNew(ValidationError(<<"value is null or undefined">>, x, Undef), h, c)
            ELSE Return(x, h, c)
      [] v.name = "optional" -> Return(x, h, c)
      [] OTHER -> ThrowNew(TestError, h, c)

\* A faulty AndThen: what the first validator throws is wrapped in a new ValidationError.
AndThenWrapped(r, validator) ==
    IF r.tag = "throw"
    THEN ThrowNew(ValidationError(<<"value is invalid">>, r.val, Undef), r.heap, r.calls)
    ELSE Apply(validator, r.val, r.heap, r.calls)

\* value => validator(validatorFunction(value)), given validatorFunction's outcome.
AndThen(r, validator) ==
    IF r.tag = "throw" THEN r ELSE Apply(validator, r.val, r.heap, r.calls)

----------------------------------------------------------------------------
(* array.items.  A frame holds the locals of one invocation.               *)

Frame(x, index, output, reasons, h, c) ==
    [value |-> x, index |-> index, output |-> output, reasons |-> reasons,
     heap |-> h, calls |-> c, thrown |-> None]

\* A faulty ItemsCatch: the first ValidationError of an element is rethrown at once.
ItemsCatchFailFast(f, error, h, c) ==
    [f EXCEPT !.heap = h, !.calls = c, !.thrown = error]

\* A faulty ItemsCatch: every error is recorded as a reason, whatever its class.
ItemsCatchAll(f, error, h, c) ==
    LET h1 == IF f.reasons = Null THEN Append(h, NewArray(Length(h, f.value))) ELSE h
        reasons == IF f.reasons = Null THEN Ref(Len(h1)) ELSE f.reasons
    IN [f EXCEPT !.heap = SetElem(h1, reasons, f.index, error),
                 !.reasons = reasons, !.calls = c, !.index = @ + 1]

\* A faulty ItemsCatch: reasons.push(error), so the reasons lose their positions.
ItemsCatchDense(f, error, h, c) ==
    IF IsValidationError(h, error)
    THEN LET h1 == IF f.reasons = Null THEN Append(h, Arr(<<>>)) ELSE h
             reasons == IF f.reasons = Null THEN Ref(Len(h1)) ELSE f.reasons
         IN [f EXCEPT !.heap = [h1 EXCEPT ![reasons.addr].elems = Append(@, error)],
                      !.reasons = reasons, !.calls = c, !.index = @ + 1]
    ELSE [f EXCEPT !.heap = h, !.calls = c, !.thrown = error]

\* isError(error, ValidationError, () => { reasons[index] = error }) of items.
ItemsCatch(f, error, h, c) ==
    IF IsValidationError(h, error)
    THEN LET h1 == IF f.reasons = Null THEN Append(h, NewArray(Length(h, f.value))) ELSE h
             reasons == IF f.reasons = Null THEN Ref(Len(h1)) ELSE f.reasons
         IN [f EXCEPT !.heap = SetElem(h1, reasons, f.index, error),
                      !.reasons = reasons, !.calls = c, !.index = @ + 1]
    ELSE [f EXCEPT !.heap = h, !.calls = c, !.thrown = error]

\* A faulty ItemsStore: the array allocated at the first transformed element is
\* not backfilled with the elements before it.
ItemsStoreNoBackfill(f, item, r) ==
    IF r.tag = "return"
    THEN LET transformed == r.val
             fresh == ~StrictEq(transformed, item) /\ f.output = Null
             h1 == IF fresh
                   THEN Append(r.heap, NewArray(Length(r.heap, f.value)))
                   ELSE r.heap
             output == IF fresh THEN Ref(Len(h1)) ELSE f.output
             h2 == IF output # Null THEN SetElem(h1, output, f.index, transformed) ELSE h1
         IN [f EXCEPT !.heap = h2, !.output = output, !.calls = r.calls, !.index = @ + 1]
    ELSE ItemsCatch(f, r.val, r.heap, r.calls)

\* A faulty ItemsStore: the transformed element is written into the input array.
ItemsStoreInPlace(f, item, r) ==
    IF r.tag = "return"
    THEN [f EXCEPT !.heap = SetElem(r.heap, f.value, f.index, r.val), !.calls = r.calls,
                   !.index = @ + 1]
    ELSE ItemsCatch(f, r.val, r.heap, r.calls)

\* What the body of the for loop of items does with the outcome r of
\* items(item): the transformed element is stored, the error is caught.
ItemsStore(f, item, r) ==
    IF r.tag = "return"
    THEN LET transformed == r.val
             fresh == ~StrictEq(transformed, item) /\ f.output = Null
             h1 == IF fresh
                   THEN Append(r.heap,
                            Arr([j \in 1..Length(r.heap, f.value) |->
                                   IF j - 1 < f.index
                                   THEN ElemAt(r.heap, f.value, j - 1) ELSE Hole]))
                   ELSE r.heap
             output == IF fresh THEN Ref(Len(h1)) ELSE f.output
             h2 == IF output # Null THEN SetElem(h1, output, f.index, transformed) ELSE h1
         IN [f EXCEPT !.heap = h2, !.output = output, !.calls = r.calls, !.index = @ + 1]
    ELSE ItemsCatch(f, r.val, r.heap, r.calls)

\* A faulty ItemsBody: the elements are validated from the last to the first.
ItemsBodyBackwards(items, f) ==
    ItemsStore(f, ElemAt(f.heap, f.value, f.index),
               Apply(items, ElemAt(f.heap, f.value, Length(f.heap, f.value) - 1 - f.index),
                     f.heap, f.calls))

\* One pass through the body of the for loop of items.
ItemsBody(items, f) ==
    ItemsStore(f, ElemAt(f.heap, f.value, f.index),
               Apply(items, ElemAt(f.heap, f.value, f.index), f.heap, f.calls))

\* What follows the for loop of items (or an error that escaped it).
ItemsFinish(f) ==
    IF f.thrown # None
    THEN [tag |-> "throw", val |-> f.thrown, heap |-> f.heap, calls |-> f.calls]
    ELSE IF f.reasons # Null
    THEN ThrowNew(ValidationError(<<"value is an array of invalid items">>, f.value, f.reasons),
                  f.heap, f.calls)
    ELSE IF f.output # Null THEN Return(f.output, f.heap, f.calls)
    ELSE Return(f.value, f.heap, f.calls)

RECURSIVE ItemsLoop(_, _)
ItemsLoop(items, f) ==
    IF f.thrown = None /\ f.index < Length(f.heap, f.value)
    THEN ItemsLoop(items, ItemsBody(items, f))
    ELSE f

\* A faulty ItemsSkips: no value is returned before the loop.
ItemsSkipsNothing(x) == FALSE

\* if (!value) return value;
ItemsSkips(x) == Falsy(x)

\* value.length cannot be read: value is null or undefined.
NoLength(x) == x = Null \/ x = Undef

\* The function array.items(items) wraps, run to its end.
ItemsRun(v, x, h, c) ==
    IF ItemsSkips(x)
    THEN Return(x, h, c)
    ELSE IF NoLength(x)
    THEN ThrowNew(TypeError, h, c)
    ELSE ItemsFinish(ItemsLoop(v.items, Frame(x, 0, Null, Null, h, c)))

----------------------------------------------------------------------------
(* obj.keys.                                                               *)

\* The `missing` lookup obj.keys builds from options.missing.
Missing(v) == {v.missing[i] : i \in 1..Len(v.missing)}

\* A faulty KeysCatch: every error is recorded as a reason, whatever its class.
KeysCatchAll(f, key, error, h, c) ==
    LET h1 == IF f.reasons = Null THEN Append(h, Obj(EmptyProps, EmptyProps)) ELSE h
        reasons == IF f.reasons = Null THEN Ref(Len(h1)) ELSE f.reasons
    IN [f EXCEPT !.heap = SetProp(h1, reasons, key, error),
                 !.reasons = reasons, !.calls = c, !.index = @ + 1]

\* A faulty KeysCatch: only the first ValidationError is recorded as a reason.
KeysCatchFirst(f, key, error, h, c) ==
    IF IsValidationError(h, error)
    THEN IF f.reasons = Null
         THEN [f EXCEPT !.heap = SetProp(Append(h, Obj(EmptyProps, EmptyProps)),
                                         Ref(Len(h) + 1), key, error),
                        !.reasons = Ref(Len(h) + 1), !.calls = c, !.index = @ + 1]
         ELSE [f EXCEPT !.heap = h, !.calls = c, !.index = @ + 1]
    ELSE [f EXCEPT !.heap = h, !.calls = c, !.thrown = error]

\* isError(error, ValidationError, () => { reasons[key] = error }) of keys.
KeysCatch(f, key, error, h, c) ==
    IF IsValidationError(h, error)
    THEN LET h1 == IF f.reasons = Null THEN Append(h, Obj(EmptyProps, EmptyProps)) ELSE h
             reasons == IF f.reasons = Null THEN Ref(Len(h1)) ELSE f.reasons
         IN [f EXCEPT !.heap = SetProp(h1, reasons, key, error),
                      !.reasons = reasons, !.calls = c, !.index = @ + 1]
    ELSE [f EXCEPT !.heap = h, !.calls = c, !.thrown = error]

\* A faulty KeysTry: the key validator is run on a key that is missing, allowed or not.
KeysTryLenient(v, f) ==
    Apply(v.structure[f.index + 1].validator,
          Get(f.heap, f.value, v.structure[f.index + 1].key), f.heap, f.calls)

\* The try block of keys for one key: the key validator's outcome, or the
\* "key is missing" error.
KeysTry(v, f) ==
    LET key == v.structure[f.index + 1].key
        validator == v.structure[f.index + 1].validator
    IN IF ~HasOwn(f.heap, f.value, key)
       THEN IF key \notin Missing(v)
            THEN ThrowNew(ValidationError(<<"key ", key, " in value is missing">>,
                                          Str(key), Undef), f.heap, f.calls)
            ELSE Apply(validator, Get(f.heap, f.value, key), f.heap, f.calls)
       ELSE Apply(validator, Get(f.heap, f.value, key), f.heap, f.calls)

\* One pass through the body of the for-in loop of keys.
KeysBody(v, f) ==
    LET key == v.structure[f.index + 1].key
        r == KeysTry(v, f)
    IN IF r.tag = "return"
       THEN [f EXCEPT !.heap = SetProp(r.heap, f.output, key, r.val),
                      !.calls = r.calls, !.index = @ + 1]
       ELSE KeysCatch(f, key, r.val, r.heap, r.calls)

\* A faulty KeysFinish: the input is returned when the output holds the same properties.
KeysFinishSame(f) ==
    IF f.thrown # None
    THEN [tag |-> "throw", val |-> f.thrown, heap |-> f.heap, calls |-> f.calls]
    ELSE IF f.reasons # Null
    THEN ThrowNew(ValidationError(<<"value does not match structure">>, f.value, f.reasons),
                  f.heap, f.calls)
    ELSE IF f.heap[f.output.addr].props = f.heap[f.value.addr].props
    THEN Return(f.value, f.heap, f.calls)
    ELSE Return(f.output, f.heap, f.calls)

\* What follows the for-in loop of keys (or an error that escaped it).
KeysFinish(f) ==
    IF f.thrown # None
    THEN [tag |-> "throw", val |-> f.thrown, heap |-> f.heap, calls |-> f.calls]
    ELSE IF f.reasons # Null
    THEN ThrowNew(ValidationError(<<"value does not match structure">>, f.value, f.reasons),
                  f.heap, f.calls)
    ELSE Return(f.output, f.heap, f.calls)

RECURSIVE KeysLoop(_, _)
KeysLoop(v, f) ==
    IF f.thrown = None /\ f.index < Len(v.structure)
    THEN KeysLoop(v, KeysBody(v, f))
    ELSE f

\* A faulty KeysFrame: output starts as a copy of the input's own properties.
KeysFrameCopy(x, h, c) ==
    Frame(x, 0, Ref(Len(h) + 1), Null, Append(h, Obj(h[x.addr].props, EmptyProps)), c)

\* const output = {}: the locals of keys once the input is known not to be null.
KeysFrame(x, h, c) ==
    Frame(x, 0, Ref(Len(h) + 1), Null, Append(h, Obj(EmptyProps, EmptyProps)), c)

\* A faulty KeysSkips: undefined is taken for an object.
KeysSkipsNull(x) == x = Null

\* if (null === value || undefined === value) return value;
KeysSkips(x) == x = Null \/ x = Undef

\* The function obj.keys(structure, options) wraps, run to its end.
KeysRun(v, x, h, c) ==
    IF KeysSkips(x)
    THEN Return(x, h, c)
    ELSE KeysFinish(KeysLoop(v, KeysFrame(x, h, c)))

----------------------------------------------------------------------------
(* obj.and.                                                                *)

\* A faulty ObjectKeys: every own key, enumerable or not.
ObjectKeysOwn(h, x) == DOMAIN h[x.addr].props

\* Object.keys(value): the own enumerable keys.
ObjectKeys(h, x) == DOMAIN h[x.addr].props \ h[x.addr].hidden

\* The callback of fields.forEach for one field: a field that is not among
\* Object.keys(value) makes a ValidationError, caught and recorded under it.
ObjAndBody(v, f) ==
    LET key == v.fields[f.index + 1]
    IN IF key \in ObjectKeys(f.heap, f.value)
       THEN [f EXCEPT !.index = @ + 1]
       ELSE LET r == ThrowNew(ValidationError(<<"field must be present">>,
                                              Get(f.heap, f.value, key), Undef),
                              f.heap, f.calls)
            IN KeysCatch(f, key, r.val, r.heap, r.calls)

RECURSIVE ObjAndLoop(_, _)
ObjAndLoop(v, f) ==
    IF f.index < Len(v.fields) THEN ObjAndLoop(v, ObjAndBody(v, f)) ELSE f

\* The function obj.and(fields) wraps (obj.and is invoked on its own here, not
\* as part of another validator); the message ends with fields.join(", "),
\* kept as the fields themselves.
ObjAndRun(v, x, h, c) ==
    IF x = Null \/ x = Undef
    THEN Return(x, h, c)
    ELSE LET f == ObjAndLoop(v, Frame(x, 0, Null, Null, h, c))
         IN IF f.reasons # Null
            THEN ThrowNew(ValidationError(<<"value must contain all of the fields ">>
                                              \o v.fields, x, f.reasons),
                          f.heap, f.calls)
            ELSE Return(x, f.heap, f.calls)

----------------------------------------------------------------------------
(* Invoking a validator: container[name] calls the wrapped function.       *)

Apply(v, x, h, c) ==
    LET c1 == Append(c, Invoked("validator", v, x))
    IN CASE v.kind = "allow" -> Allow(v, x, h, c1)
         [] v.kind = "transform" -> Transform(v, x, h, c1)
         [] v.kind = "wrap" -> Func(v, x, h, c1)
         [] v.kind = "and" -> AndThen(Apply(v.first, x, h, c1), v.second)
         [] v.kind = "items" -> ItemsRun(v, x, h, c1)
         [] v.kind = "keys" -> KeysRun(v, x, h, c1)

----------------------------------------------------------------------------
(* The validators and inputs the model runs.                               *)

Leaves ==
    {StrIs, NumIs, NumIsNaN, NumInteger, AnyIs, Required, Optional, ErrorTest,
     DefectAllow, DefectTransform, StrRegex, JsonParse}

\* a.and(b) for every pair of leaf validators
Chains == {And(a, b) : a \in Leaves, b \in Leaves}

\* The leaf validators chained three at a time.
TripleLeaves == {StrIs, NumInteger, Required, Optional, ErrorTest}

\* a.and(b).and(c) and a.and(b.and(c))
Triples ==
    {And(And(a, b), c) : a \in TripleLeaves, b \in TripleLeaves, c \in TripleLeaves}
    \cup {And(a, And(b, c)) : a \in TripleLeaves, b \in TripleLeaves, c \in TripleLeaves}

Primitives ==
    {Null, Undef, Num(0), Num(10), Num(15), NaN, Str(""), Str("a"),
     Bool(FALSE), Bool(TRUE)}

\* The item validators array.items is built with.
ItemValidators ==
    {StrIs, NumIsNaN, NumInteger, AnyIs, Required, Optional, ErrorTest,
     And(Required, StrIs), And(StrIs, ErrorTest), And(NumIsNaN, NumInteger)}

\* The elements of the input arrays.
Elements == {Null, Num(10), Num(15), NaN, Str("a")}

Arrays == UNION {[1..n -> Elements] : n \in 0..MaxLen}

\* The values `!value` lets through array.items unvisited.
FalsyInputs == {x \in Primitives : Falsy(x)}

\* The key validators obj.keys is built with.
KeyValidators == {And(Required, StrIs), Required, StrIs, NumInteger, ErrorTest}

DeclaredKeys == {"a", "b"}

Entry(key, validator) == [key |-> key, validator |-> validator]

\* The structures: no key, one key, or both keys in either order.
Structures ==
    {<<>>}
    \cup {<<Entry(k, v)>> : k \in DeclaredKeys, v \in KeyValidators}
    \cup {<<Entry(k1, v1), Entry(k2, v2)>> :
            <<k1, k2>> \in {<<"a", "b">>, <<"b", "a">>},
            <<v1, v2>> \in KeyValidators \X KeyValidators}

KeysValidators == {Keys(s, m) : s \in Structures, m \in {<<>>, <<"b">>}}

\* The values of the own properties a and b of the input objects.
PropValues == {Undef, Str("x"), Num(15)}

\* Own properties: a and b each absent or holding a value, c absent or "x".
OwnProps ==
    {pa @@ pb @@ pc :
        pa \in {EmptyProps} \cup {("a" :> x) : x \in PropValues},
        pb \in {EmptyProps} \cup {("b" :> x) : x \in PropValues},
        pc \in {EmptyProps, ("c" :> Str("x"))}}

\* Inherited properties: none, or b inherited from the prototype.
Protos == {EmptyProps, ("b" :> Str("p"))}

\* Objects whose own property b was defined non-enumerable
\* (Object.defineProperty(o, "b", { value: x })).
HiddenObjects ==
    {HiddenObj(props, {"b"}, EmptyProps) :
        props \in {p \in OwnProps : "b" \in DOMAIN p /\ "c" \notin DOMAIN p}}

Objects == {Obj(props, proto) : props \in OwnProps, proto \in Protos} \cup HiddenObjects

\* Objects with up to three of the keys a, b, c, created in every order, each
\* holding 0 or undefined.
KeyOrders ==
    {order \in UNION {[1..n -> {"a", "b", "c"}] : n \in 0..3} :
        \A i \in 1..Len(order) : \A j \in 1..Len(order) : order[i] = order[j] => i = j}
OrderedObjects ==
    UNION {{OrderedObj(props, order) :
                props \in [{order[i] : i \in 1..Len(order)} -> {Num(0), Undef}]} :
           order \in KeyOrders}

\* An input is a value and the heap that holds what it refers to.
Input(x, h) == [value |-> x, heap |-> h]

InputsFor(v) ==
    CASE v.kind = "items" ->
            {Input(x, <<>>) : x \in FalsyInputs} \cup {Input(Ref(1), <<Arr(xs)>>) : xs \in Arrays}
      [] v.kind \in {"keys", "obj.and"} ->
            {Input(x, <<>>) : x \in {Null, Undef}} \cup {Input(Ref(1), <<o>>) : o \in Objects}
      [] v.kind = "allow" /\ v.name = "obj.xor" ->
            {Input(x, <<>>) : x \in {Null, Undef}}
            \cup {Input(Ref(1), <<o>>) : o \in OrderedObjects}
      [] OTHER -> {Input(x, <<>>) : x \in Primitives}

\* obj.and over one and over two fields
ObjAnds == {ObjAnd(<<"b">>), ObjAnd(<<"a", "b">>)}

\* obj.xor over two fields, either way round
Xors == {Xor(<<"a", "b">>), Xor(<<"b", "a">>)}

Validators ==
    Leaves \cup Chains \cup Triples \cup ObjAnds \cup Xors \cup {Items(v) : v \in ItemValidators} \cup KeysValidators

----------------------------------------------------------------------------
(* The state: one invocation validator(value).                             *)

VARIABLES
    validator,  \* the validator invoked
    value,      \* its argument
    initial,    \* the heap as it was when the validator was invoked
    heap,       \* the heap
    calls,      \* the validators, predicates and transformers invoked so far
    pc,         \* "call", "items" or "keys" (inside the loop), "done"
    index,      \* the loop counter of items; the position in the for-in of keys
    output,     \* the local `output` of items and keys
    reasons,    \* the local `reasons` of items and keys
    result,     \* what the invocation returned or threw
    other       \* the locals of a second invocation, while this one runs

vars == <<validator, value, initial, heap, calls, pc, index, output, reasons, result, other>>

\* The locals of an invocation that is not running: its argument, where it
\* stands, its loop counter, its output, its reasons and its outcome.
Locals(x, at, i, out, rs, r) ==
    [value |-> x, pc |-> at, index |-> i, output |-> out, reasons |-> rs, result |-> r]

NoResult == [tag |-> "none", val |-> None]

\* There is no second invocation.
Idle == Locals(None, "idle", 0, Null, Null, NoResult)

Init ==
    \E v \in Validators :
        \E in \in InputsFor(v) :
            /\ validator = v
            /\ value = in.value
            /\ initial = in.heap
            /\ heap = in.heap
            /\ calls = <<>>
            /\ pc = "call"
            /\ index = 0
            /\ output = Null
            /\ reasons = Null
            /\ result = NoResult
            /\ other = Idle

\* The locals of the running aggregator as a frame.
Current == Frame(value, index, output, reasons, heap, calls)

\* The invocation ends with outcome r.
Finish(r) ==
    /\ heap' = r.heap
    /\ calls' = r.calls
    /\ result' = [tag |-> r.tag, val |-> r.val]
    /\ pc' = "done"

\* The loop goes on with the locals of frame f.
Continue(f) ==
    /\ heap' = f.heap
    /\ calls' = f.calls
    /\ index' = f.index
    /\ output' = f.output
    /\ reasons' = f.reasons
    /\ UNCHANGED <<pc, result>>

\* A validator that is no aggregator runs to its end.
Call ==
    /\ pc = "call"
    /\ validator.kind \notin {"items", "keys", "obj.and"}
    /\ Finish(Apply(validator, value, heap, calls))
    /\ UNCHANGED <<validator, value, initial, other, index, output, reasons>>

\* array.items is entered: a falsy value is returned, else the loop begins.
ItemsCall ==
    /\ pc = "call"
    /\ validator.kind = "items"
    /\ LET c == Append(calls, Invoked("validator", validator, value))
       IN IF ItemsSkips(value)
          THEN Finish(Return(value, heap, c)) /\ UNCHANGED <<index, output, reasons>>
          ELSE IF NoLength(value)
          THEN Finish(ThrowNew(TypeError, heap, c)) /\ UNCHANGED <<index, output, reasons>>
          ELSE /\ pc' = "items"
               /\ calls' = c
               /\ index' = 0
               /\ output' = Null
               /\ reasons' = Null
               /\ UNCHANGED <<heap, result>>
    /\ UNCHANGED <<validator, value, initial, other>>

\* One element is visited.
ItemsIter ==
    /\ pc = "items"
    /\ index < Length(heap, value)
    /\ LET f == ItemsBody(validator.items, Current)
       IN IF f.thrown # None
          THEN Finish(ItemsFinish(f)) /\ UNCHANGED <<index, output, reasons>>
          ELSE Continue(f)
    /\ UNCHANGED <<validator, value, initial, other>>

\* The loop of items is over.
ItemsReturn ==
    /\ pc = "items"
    /\ ~(index < Length(heap, value))
    /\ Finish(ItemsFinish(Current))
    /\ UNCHANGED <<validator, value, initial, other, index, output, reasons>>

\* obj.keys is entered: null and undefined are returned, else output = {}.
KeysCall ==
    /\ pc = "call"
    /\ validator.kind = "keys"
    /\ LET c == Append(calls, Invoked("validator", validator, value))
       IN IF KeysSkips(value)
          THEN Finish(Return(value, heap, c)) /\ UNCHANGED <<index, output, reasons>>
          ELSE LET f == KeysFrame(value, heap, c)
               IN /\ pc' = "keys"
                  /\ heap' = f.heap
                  /\ calls' = f.calls
                  /\ index' = f.index
                  /\ output' = f.output
                  /\ reasons' = f.reasons
                  /\ UNCHANGED result
    /\ UNCHANGED <<validator, value, initial, other>>

\* One declared key is visited.
KeysIter ==
    /\ pc = "keys"
    /\ index < Len(validator.structure)
    /\ LET f == KeysBody(validator, Current)
       IN IF f.thrown # None
          THEN Finish(KeysFinish(f)) /\ UNCHANGED <<index, output, reasons>>
          ELSE Continue(f)
    /\ UNCHANGED <<validator, value, initial, other>>

\* The loop of keys is over.
KeysReturn ==
    /\ pc = "keys"
    /\ ~(index < Len(validator.structure))
    /\ Finish(KeysFinish(Current))
    /\ UNCHANGED <<validator, value, initial, other, index, output, reasons>>

\* obj.and runs to its end.
ObjAndCall ==
    /\ pc = "call"
    /\ validator.kind = "obj.and"
    /\ Finish(ObjAndRun(validator, value, heap,
                        Append(calls, Invoked("validator", validator, value))))
    /\ UNCHANGED <<validator, value, initial, other, index, output, reasons>>

Next ==
    \/ Call
    \/ ObjAndCall
    \/ ItemsCall
    \/ ItemsIter
    \/ ItemsReturn
    \/ KeysCall
    \/ KeysIter
    \/ KeysReturn

Spec == Init /\ [][Next]_vars

----------------------------------------------------------------------------
(* Vocabulary of the properties.                                           *)

Done == pc = "done"

Returned(x) == result = [tag |-> "return", val |-> x]

\* The invocation threw a ValidationError / an error of another class.
ThrewValidationError == result.tag = "throw" /\ IsValidationError(heap, result.val)
ThrewDefect == result.tag = "throw" /\ ~IsValidationError(heap, result.val)

\* The outcome of validator v on x alone, from the heap of the invocation's start.
Alone(v, x) == Apply(v, x, initial, <<>>)

Fails(r) == r.tag = "throw" /\ IsValidationError(r.heap, r.val)
Defect(r) == r.tag = "throw" /\ ~IsValidationError(r.heap, r.val)

\* The predicates and transformers among the invocations logged.
LeafInvocations == {i \in 1..Len(calls) : calls[i].site \in {"bool", "transformer"}}

\* Validators made of wrap(name, allow(..)), wrap(name, transform(..)) and `and` only.
RECURSIVE IsLeafChain(_)
IsLeafChain(v) ==
    \/ v.kind \in {"allow", "transform"}
    \/ v.kind = "and" /\ IsLeafChain(v.first) /\ IsLeafChain(v.second)

\* array.items ran on an array: its elements, and the item validator's outcome on each.
ItemsOnArray == validator.kind = "items" /\ IsRef(value)
Xs == initial[value.addr].elems
ItemOutcome(i) == Alone(validator.items, Xs[i])

----------------------------------------------------------------------------
(* C1 *)

\* C1: a validator built from wrap(name, allow(pred, msg)), wrap(name,
\* transform(fn)) and and-chains of these returns null for null and undefined
\* for undefined, and invokes no predicate and no transformer in doing so.
C1_NullabilityPassThrough ==
    (Done /\ IsLeafChain(validator) /\ value \in {Null, Undef}) =>
        /\ Returned(value)
        /\ LeafInvocations = {}

\* A chain of two defective leaves was given null: had either been invoked, it had thrown.
C1_Witness ==
    /\ Done
    /\ validator = And(DefectAllow, DefectTransform)
    /\ value = Null
    /\ Returned(Null)

----------------------------------------------------------------------------
(* C2 *)

\* C2: a.and(b)(x) is b(a(x)): when a(x) returns, the outcome is that of b on
\* what a returned; when a(x) throws, b is not invoked (the log holds the
\* invocations of a alone) and the very object a threw is what the caller gets.
C2_Composition ==
    (Done /\ validator.kind = "and") =>
        LET a == Alone(validator.first, value)
            b == Apply(validator.second, a.val, a.heap, a.calls)
            own == <<Invoked("validator", validator, value)>>
        IN IF a.tag = "throw"
           THEN /\ result = [tag |-> "throw", val |-> a.val]
                /\ heap = a.heap
                /\ calls = own \o a.calls
           ELSE /\ result = [tag |-> b.tag, val |-> b.val]
                /\ heap = b.heap
                /\ calls = own \o b.calls

\* str.is rejected a number, so num.integer never saw it.
C2_Witness ==
    /\ Done
    /\ validator = And(StrIs, NumInteger)
    /\ value = Num(15)
    /\ ThrewValidationError
    /\ Len(calls) = 3

----------------------------------------------------------------------------
(* C3 *)

\* C3: when an element fails with a ValidationError and none throws another
\* error, array.items throws one ValidationError whose value is the input array
\* and whose reasons is an array as long as the input, holding a
\* ValidationError at exactly the indices that failed and nothing at the others.
C3_ItemsCollectsEveryFailure ==
    (/\ Done
     /\ ItemsOnArray
     /\ \E i \in 1..Len(Xs) : Fails(ItemOutcome(i))
     /\ \A i \in 1..Len(Xs) : ~Defect(ItemOutcome(i))) =>
        /\ ThrewValidationError
        /\ heap[result.val.addr].value = value
        /\ LET rs == heap[result.val.addr].reasons
           IN /\ IsRef(rs)
              /\ heap[rs.addr].k = "arr"
              /\ Len(heap[rs.addr].elems) = Len(Xs)
              /\ \A i \in 1..Len(Xs) :
                    LET e == heap[rs.addr].elems[i]
                    IN IF Fails(ItemOutcome(i))
                       THEN /\ IsValidationError(heap, e)
                            /\ heap[e.addr].value = Xs[i]
                            /\ heap[e.addr].reasons = Undef
                       ELSE e = Hole

\* The validator rejects strings; of ["a", "a", 1] the first two failed.
C3_Witness ==
    /\ Done
    /\ validator = Items(NumIsNaN)
    /\ ItemsOnArray
    /\ Xs = <<Str("a"), Str("a"), Num(10)>>
    /\ ThrewValidationError

----------------------------------------------------------------------------
(* C4 *)

\* C4 (as claimed): when the item validator returns every element as it was
\* given, array.items returns the input array itself.
C4_IdentityPreserved ==
    (/\ Done
     /\ ItemsOnArray
     /\ \A i \in 1..Len(Xs) :
            ItemOutcome(i).tag = "return" /\ ItemOutcome(i).val = Xs[i]) =>
        Returned(value)

----------------------------------------------------------------------------
(* C5 *)

\* C5: when no element fails and the item validator returns, for some index,
\* a value that is not === the element, array.items returns an array allocated
\* by the call (not the input), as long as the input, whose every element is
\* the item validator's output for the element at that index.
C5_TransformedCopy ==
    (/\ Done
     /\ ItemsOnArray
     /\ \A i \in 1..Len(Xs) : ItemOutcome(i).tag = "return"
     /\ \E i \in 1..Len(Xs) : ~StrictEq(ItemOutcome(i).val, Xs[i])) =>
        /\ result.tag = "return"
        /\ IsRef(result.val)
        /\ result.val # value
        /\ result.val.addr > Len(initial)
        /\ heap[result.val.addr] = Arr([i \in 1..Len(Xs) |-> ItemOutcome(i).val])

\* Of [1, 1.5, 1] only the second element was transformed; the first was backfilled.
C5_Witness ==
    /\ Done
    /\ validator = Items(NumInteger)
    /\ ItemsOnArray
    /\ Xs = <<Num(10), Num(15), Num(10)>>
    /\ result.tag = "return"
    /\ heap[result.val.addr].elems = <<Num(10), Num(10), Num(10)>>

----------------------------------------------------------------------------
(* Vocabulary of the properties of obj.keys.                               *)

\* obj.keys ran on an object: the keys it declares and the outcome on each.
KeysOnObject == validator.kind = "keys" /\ IsRef(value)
Declared == {validator.structure[i].key : i \in 1..Len(validator.structure)}
ValidatorOf(k) ==
    validator.structure[CHOOSE i \in 1..Len(validator.structure) :
                            validator.structure[i].key = k].validator

\* The declared key k is not on the input and may not be.
KeyIsMissing(k) == ~HasOwn(initial, value, k) /\ k \notin Missing(validator)
KeyOutcome(k) == Alone(ValidatorOf(k), Get(initial, value, k))
KeyFails(k) == KeyIsMissing(k) \/ Fails(KeyOutcome(k))
KeyDefect(k) == ~KeyIsMissing(k) /\ Defect(KeyOutcome(k))

\* The loop of items / keys is about to visit an element / a key.
AtItem == pc = "items" /\ index < Length(heap, value)
AtKey == pc = "keys" /\ index < Len(validator.structure)
Key == validator.structure[index + 1].key

\* The reasons map of the ValidationError thrown.
ReasonsMap == heap[heap[result.val.addr].reasons.addr].props

----------------------------------------------------------------------------
(* C6 *)

\* C6: when the item validator (array.items) or the key validator (obj.keys)
\* throws an error that is no ValidationError, the step that visited it ends
\* the call by throwing that very error object, untouched, whatever reasons
\* had been collected before; no ValidationError is made of them.
C6_DefectPropagation ==
    [][/\ (AtItem /\ Defect(Apply(validator.items, ElemAt(heap, value, index), heap, calls))) =>
            LET r == Apply(validator.items, ElemAt(heap, value, index), heap, calls)
            IN /\ pc' = "done"
               /\ result' = [tag |-> "throw", val |-> r.val]
               /\ heap' = r.heap
               /\ heap'[r.val.addr] = TestError
       /\ (AtKey /\ Defect(KeysTry(validator, Current))) =>
            LET r == KeysTry(validator, Current)
            IN /\ pc' = "done"
               /\ result' = [tag |-> "throw", val |-> r.val]
               /\ heap' = r.heap
               /\ heap'[r.val.addr] = TestError]_vars

\* An element had failed validation before another threw a TestError.
C6_Witness ==
    /\ Done
    /\ ItemsOnArray
    /\ ThrewDefect
    /\ reasons # Null

----------------------------------------------------------------------------
(* C7 *)

\* What C7 says of the ValidationError obj.keys ends with.
C7_Aggregate ==
    (/\ Done
     /\ KeysOnObject
     /\ \A k \in Declared : ~KeyDefect(k)
     /\ \E k \in Declared : KeyFails(k)) =>
        /\ ThrewValidationError
        /\ heap[result.val.addr].value = value
        /\ IsRef(heap[result.val.addr].reasons)
        /\ DOMAIN ReasonsMap = {k \in Declared : KeyFails(k)}
        /\ \A k \in DOMAIN ReasonsMap : IsValidationError(heap, ReasonsMap[k])

----------------------------------------------------------------------------
(* C8 *)

\* C8: when obj.keys succeeds on an input that is neither null nor undefined,
\* what it returns is an object allocated by the call, never the input.
C8_FreshRecord ==
    (Done /\ validator.kind = "keys" /\ value \notin {Null, Undef} /\ result.tag = "return") =>
        /\ IsRef(result.val)
        /\ result.val # value
        /\ result.val.addr > Len(initial)
        /\ heap[result.val.addr].k = "obj"

\* {a: "x"} under {a: str.is}: nothing transformed, and still another object.
C8_Witness ==
    /\ Done
    /\ validator = Keys(<<Entry("a", StrIs)>>, <<>>)
    /\ KeysOnObject
    /\ initial[1] = Obj(("a" :> Str("x")), EmptyProps)
    /\ result.tag = "return"
    /\ heap[result.val.addr].props = initial[1].props

----------------------------------------------------------------------------
(* C9 *)

\* C9 (as claimed): for a declared key listed in options.missing that the
\* input does not own, the key's validator is invoked with undefined; a
\* presence-tolerant validator lets the key pass, and required() makes the call
\* fail with a ValidationError whose reasons has an entry for that key.
C9_AllowedMissing ==
    (Done /\ KeysOnObject /\ ~ThrewDefect) =>
        \A k \in Declared :
            (k \in Missing(validator) /\ ~HasOwn(initial, value, k)) =>
                /\ \E i \in 1..Len(calls) :
                        calls[i] = Invoked("validator", ValidatorOf(k), Undef)
                /\ ValidatorOf(k) \in {StrIs, NumInteger} =>
                        ~(ThrewValidationError /\ k \in DOMAIN ReasonsMap)
                /\ ValidatorOf(k) \in {Required, And(Required, StrIs)} =>
                        (ThrewValidationError /\ k \in DOMAIN ReasonsMap)

----------------------------------------------------------------------------
(* C10 *)

\* The input object without the own properties the structure does not declare.
Stripped ==
    LET o == initial[value.addr]
    IN HiddenObj([k \in DOMAIN o.props \cap Declared |-> o.props[k]],
                 o.hidden \cap Declared, o.proto)

----------------------------------------------------------------------------
(* C11 *)

\* C11 (as claimed): obj.keys is strict in both directions: an input object
\* with an own key the structure does not declare is rejected with a
\* ValidationError.
C11_UndeclaredKeyRejected ==
    (Done /\ KeysOnObject /\ DOMAIN initial[value.addr].props \ Declared # {}) =>
        ThrewValidationError

----------------------------------------------------------------------------
(* C12 *)

\* The input object of obj.keys and its own properties, enumerable or not.
InputObject == heap[value.addr]
Own(k) == k \in DOMAIN InputObject.props
OwnEnumerable(k) == Own(k) /\ k \notin InputObject.hidden

\* Visiting a declared key that may not be missing: when present, its
\* validator is invoked with the property's own value and no "key is missing"
\* error is made; when absent, nothing is invoked and the "key is missing"
\* error is recorded under the key.
PresenceDecides(present) ==
    (AtKey /\ Key \notin Missing(validator)) =>
        IF present
        THEN /\ Len(calls') > Len(calls)
             /\ calls'[Len(calls) + 1] =
                    Invoked("validator", ValidatorOf(Key), InputObject.props[Key])
             /\ \A a \in (Len(heap) + 1)..Len(heap') :
                    heap'[a].k = "ValidationError" =>
                        heap'[a].message # <<"key ", Key, " in value is missing">>
        ELSE /\ calls' = calls
             /\ IsRef(reasons')
             /\ Key \in DOMAIN heap'[reasons'.addr].props
             /\ heap'[heap'[reasons'.addr].props[Key].addr].message =
                    <<"key ", Key, " in value is missing">>

\* C12 (as claimed): a declared key is present exactly when it is an own,
\* enumerable property of the input: explicitly undefined counts as present,
\* inherited or non-enumerable own counts as absent.
C12_PresentWhenOwnEnumerable == [][PresenceDecides(OwnEnumerable(Key))]_vars

\* C12 (amended): a declared key is present exactly when it is an own property
\* of the input, enumerable or not: explicitly undefined counts as present, a
\* non-enumerable own property counts as present, inherited counts as absent.
C12_PresentWhenOwn == [][PresenceDecides(Own(Key))]_vars

\* a is own and undefined, b is own and not enumerable; both are required to
\* be there, both were validated and copied.
C12_Witness ==
    /\ Done
    /\ validator = Keys(<<Entry("a", StrIs), Entry("b", StrIs)>>, <<>>)
    /\ KeysOnObject
    /\ initial[1] = HiddenObj(("a" :> Undef) @@ ("b" :> Str("x")), {"b"}, EmptyProps)
    /\ result.tag = "return"
    /\ heap[result.val.addr].props = ("a" :> Undef) @@ ("b" :> Str("x"))

----------------------------------------------------------------------------
(* C13 *)

\* C13: array.items(v) and obj.keys(S) return null for null and undefined for
\* undefined: nothing is thrown, nothing is allocated, and nothing is invoked
\* but the aggregator itself (no item validator, no key validator).
C13_AggregatorsPassNull ==
    (Done /\ validator.kind \in {"items", "keys"} /\ value \in {Null, Undef}) =>
        /\ Returned(value)
        /\ calls = <<Invoked("validator", validator, value)>>
        /\ heap = initial

\* undefined under a structure that requires the key a came back as undefined.
C13_Witness ==
    /\ Done
    /\ validator = Keys(<<Entry("a", Required)>>, <<>>)
    /\ value = Undef
    /\ Returned(Undef)

----------------------------------------------------------------------------
(* C14 *)

\* The same three validators chained the other way round.
Reassociated(v) ==
    IF v.first.kind = "and"
    THEN And(v.first.first, And(v.first.second, v.second))
    ELSE And(And(v.first, v.second.first), v.second.second)

\* The invocations of a log that are not invocations of an and-chain.
Flat(c) == SelectSeq(c, LAMBDA e : e.v.kind # "and")

\* C14: a.and(b).and(c) and a.and(b.and(c)) end the same way on every input:
\* the same value returned or the same error thrown (same class, message,
\* value, reasons), after invoking the same validators, predicates and
\* transformers with the same arguments in the same order.
C14_Associative ==
    (Done /\ validator \in Triples) =>
        LET r == Alone(Reassociated(validator), value)
        IN /\ result = [tag |-> r.tag, val |-> r.val]
           /\ heap = r.heap
           /\ Flat(calls) = Flat(r.calls)

\* required, then num.integer truncating 1.5 to 1, then str.is rejecting 1.
C14_Witness ==
    /\ Done
    /\ validator = And(And(Required, NumInteger), StrIs)
    /\ value = Num(15)
    /\ ThrewValidationError
    /\ heap[result.val.addr].value = Num(10)

----------------------------------------------------------------------------
(* C15 *)

\* C15: required() throws a ValidationError (carrying the value) for null and
\* for undefined and returns every other value as it is, the falsy values 0,
\* "", NaN and false included; optional() returns every value as it is and
\* never throws.
C15_RequiredOptional ==
    Done =>
        /\ validator = Required =>
                IF value \in {Null, Undef}
                THEN /\ ThrewValidationError
                     /\ heap[result.val.addr].value = value
                ELSE Returned(value) /\ heap = initial
        /\ validator = Optional => (Returned(value) /\ heap = initial)

\* required() returned NaN.
C15_Witness ==
    /\ Done
    /\ validator = Required
    /\ value = NaN
    /\ Returned(NaN)

----------------------------------------------------------------------------
(* C16 *)

\* C16: allow(pred, msg) on a value that is neither null nor undefined: when
\* pred answers true the value given is returned; when it answers false a
\* ValidationError is thrown whose message is msg, whose value is the value
\* given, and whose reasons is absent.
C16_AllowOutcome ==
    (Done /\ validator.kind = "allow" /\ validator # DefectAllow
          /\ value \notin {Null, Undef}) =>
        IF CallBool(validator, value, initial, <<>>).val = Bool(TRUE)
        THEN Returned(value) /\ heap = initial
        ELSE /\ ThrewValidationError
             /\ heap[result.val.addr] = ValidationError(validator.failure, value, Undef)

\* num.is() answered false on NaN.
C16_Witness ==
    /\ Done
    /\ validator = NumIs
    /\ value = NaN
    /\ ThrewValidationError
    /\ heap[result.val.addr].message = <<"value is not a number">>

----------------------------------------------------------------------------
(* Aggregators within aggregators: validators and inputs.                  *)

NestLen == 2

\* Aggregators over leaves, aggregators over those, and-chains of them, and
\* aggregators three deep. The leaf str.regex(/^[abc]$/i) returns "a", rejects
\* "" with a ValidationError and throws a TypeError on a number.
Inner ==
    {Items(StrRegex), Keys(<<Entry("a", And(Required, StrRegex)), Entry("b", StrIs)>>, <<>>)}
Outer ==
    {Items(v) : v \in Inner}
    \cup {Keys(<<Entry("a", v), Entry("b", StrRegex)>>, <<>>) : v \in Inner}
NestedValidators ==
    Outer
    \cup {And(Required, Items(v)) : v \in Inner}
    \cup {And(v, Optional) : v \in Inner}
    \cup {Items(Keys(<<Entry("a", Items(StrRegex))>>, <<>>)),
          Keys(<<Entry("a", Items(Items(StrRegex)))>>, <<>>)}

\* An input written as a tree: an array of trees, an object of trees, or a
\* primitive.
ArrT(elems) == [t |-> "arrT", elems |-> elems]
ObjT(entries) == [t |-> "objT", entries |-> entries]

\* The trees a validator is given, accepted and not; arrays are at most n long,
\* and the arrays they hold one shorter.
RECURSIVE TreesFor(_, _), ObjectsFor(_, _)
TreesFor(v, n) ==
    CASE v.kind = "items" ->
            {Null} \cup {ArrT(s) : s \in UNION {[1..m -> TreesFor(v.items, n - 1)] : m \in 0..n}}
      [] v.kind = "keys" -> {Undef} \cup {ObjT(es) : es \in ObjectsFor(v.structure, n)}
      [] v.kind = "and" -> TreesFor(v.first, n) \cup TreesFor(v.second, n)
      [] v.kind = "allow" -> {Str("a"), Num(15)}
      [] v.kind = "transform" -> {Str("a"), Str(""), Num(15)}
      [] OTHER -> {Null}

\* The entries of the objects given to obj.keys(structure): each declared key
\* is there or is not.
ObjectsFor(structure, n) ==
    IF Len(structure) = 0
    THEN {<<>>}
    ELSE {IF x = None THEN es ELSE <<[key |-> Head(structure).key, val |-> x]>> \o es :
            x \in {None} \cup TreesFor(Head(structure).validator, n),
            es \in ObjectsFor(Tail(structure), n)}

\* A tree laid out in the heap, its parts before it: the value that stands for
\* it and the heap that holds it.
RECURSIVE Store(_, _), StoreAll(_, _)
Store(tree, h) ==
    CASE tree.t = "arrT" ->
            LET r == StoreAll(tree.elems, h)
            IN [value |-> Ref(Len(r.heap) + 1), heap |-> Append(r.heap, Arr(r.values))]
      [] tree.t = "objT" ->
            LET n == Len(tree.entries)
                r == StoreAll([i \in 1..n |-> tree.entries[i].val], h)
                props == [k \in {tree.entries[i].key : i \in 1..n} |->
                            r.values[CHOOSE i \in 1..n : tree.entries[i].key = k]]
            IN [value |-> Ref(Len(r.heap) + 1), heap |-> Append(r.heap, Obj(props, EmptyProps))]
      [] OTHER -> [value |-> tree, heap |-> h]
StoreAll(trees, h) ==
    IF Len(trees) = 0
    THEN [values |-> <<>>, heap |-> h]
    ELSE LET first == Store(Head(trees), h)
             rest == StoreAll(Tail(trees), first.heap)
         IN [values |-> <<first.value>> \o rest.values, heap |-> rest.heap]

InitNested ==
    \E v \in NestedValidators :
        \E tree \in TreesFor(v, NestLen) :
            LET in == Store(tree, <<>>)
            IN /\ validator = v
               /\ value = in.value
               /\ initial = in.heap
               /\ heap = in.heap
               /\ calls = <<>>
               /\ pc = "call"
               /\ index = 0
               /\ output = Null
               /\ reasons = Null
               /\ result = NoResult
               /\ other = Idle

\* The validators invoked here are and-chains, array.items and obj.keys.
NextNested ==
    \/ Call
    \/ ItemsCall
    \/ ItemsIter
    \/ ItemsReturn
    \/ KeysCall
    \/ KeysIter
    \/ KeysReturn

SpecNested == InitNested /\ [][NextNested]_vars

----------------------------------------------------------------------------
(* C17 *)

\* The addresses an object of the heap refers to.
RefsOf(o) ==
    CASE o.k = "arr" -> {o.elems[i].addr : i \in {j \in 1..Len(o.elems) : IsRef(o.elems[j])}}
      [] o.k = "obj" -> {o.props[key].addr : key \in {p \in DOMAIN o.props : IsRef(o.props[p])}}
      [] o.k = "ValidationError" -> {x.addr : x \in {y \in {o.value, o.reasons} : IsRef(y)}}
      [] OTHER -> {}

\* The objects made since the validator was invoked.
Made == (Len(initial) + 1)..Len(heap)

\* C17: an error that is no ValidationError, thrown by a leaf validator however
\* deep within and-chains, array.items and obj.keys, is what the caller gets:
\* the call has ended throwing that very object, nothing was made after it (no
\* ValidationError wraps it), and nothing in the heap refers to it, so it is in
\* no reasons of any ValidationError.
C17_DefectReachesTop ==
    \A a \in Made :
        heap[a].k = "TypeError" =>
            /\ Done
            /\ result = [tag |-> "throw", val |-> Ref(a)]
            /\ a = Len(heap)
            /\ \A b \in 1..Len(heap) : a \notin RefsOf(heap[b])

\* Three deep: the first element's leaf had failed with a ValidationError,
\* which was collected, when the second element's leaf threw a TypeError.
C17_Witness ==
    /\ Done
    /\ validator = Items(Keys(<<Entry("a", Items(StrRegex))>>, <<>>))
    /\ ThrewDefect
    /\ heap[result.val.addr] = TypeError
    /\ \E a \in Made : heap[a].k = "ValidationError"

----------------------------------------------------------------------------
(* C18 *)

\* A sequence of ValidationErrors by position, the other positions empty.
IsErrorSequence(x) ==
    /\ IsRef(x)
    /\ heap[x.addr].k = "arr"
    /\ \E i \in 1..Len(heap[x.addr].elems) : heap[x.addr].elems[i] # Hole
    /\ \A i \in 1..Len(heap[x.addr].elems) :
            heap[x.addr].elems[i] = Hole \/ IsValidationError(heap, heap[x.addr].elems[i])

\* A mapping from keys to ValidationErrors.
IsErrorMapping(x) ==
    /\ IsRef(x)
    /\ heap[x.addr].k = "obj"
    /\ DOMAIN heap[x.addr].props # {}
    /\ \A key \in DOMAIN heap[x.addr].props :
            IsValidationError(heap, heap[x.addr].props[key])

\* C18 (as claimed): on every ValidationError the validators make, reasons is
\* absent when a leaf failed (allow, required, str.regex, json.parse, a missing
\* key, a missing field); the error of array.items has a sequence of
\* ValidationErrors by position, the errors of obj.keys and obj.and a mapping
\* from keys to ValidationErrors; reasons is never anything else.
C18_ReasonsShape ==
    \A a \in Made :
        heap[a].k = "ValidationError" =>
            CASE heap[a].message = <<"value is an array of invalid items">> ->
                    IsErrorSequence(heap[a].reasons)
              [] heap[a].message = <<"value does not match structure">> ->
                    IsErrorMapping(heap[a].reasons)
              [] Head(heap[a].message) = "value must contain all of the fields " ->
                    IsErrorMapping(heap[a].reasons)
              [] OTHER -> heap[a].reasons = Undef

----------------------------------------------------------------------------
(* C19 *)

\* Validator v fails on x (of the input) with a ValidationError.
FailsOn(v, x) == Fails(Apply(v, x, initial, <<>>))

\* The ValidationError e is what v makes of x, all the way down: its value is
\* x; for array.items its reasons is a sequence as long as x, with an entry at
\* exactly the indices whose element fails, each what the item validator makes
\* of that element; for obj.keys its reasons is a mapping with an entry at
\* exactly the keys that fail, each the "key is missing" error or what the
\* key's validator makes of that property; for a leaf it has no reasons.
RECURSIVE Mirrors(_, _, _)
Mirrors(v, x, e) ==
    CASE v.kind = "items" ->
            /\ heap[e.addr].value = x
            /\ IsRef(heap[e.addr].reasons)
            /\ LET rs == heap[heap[e.addr].reasons.addr]
                   xs == initial[x.addr].elems
               IN /\ rs.k = "arr"
                  /\ Len(rs.elems) = Len(xs)
                  /\ \A i \in 1..Len(xs) :
                        IF FailsOn(v.items, xs[i])
                        THEN IsValidationError(heap, rs.elems[i])
                             /\ Mirrors(v.items, xs[i], rs.elems[i])
                        ELSE rs.elems[i] = Hole
      [] v.kind = "keys" ->
            /\ heap[e.addr].value = x
            /\ IsRef(heap[e.addr].reasons)
            /\ LET rs == heap[heap[e.addr].reasons.addr]
                   n == Len(v.structure)
                   Absent(i) == v.structure[i].key \notin DOMAIN initial[x.addr].props
                   At(i) == Get(initial, x, v.structure[i].key)
                   Failing == {i \in 1..n : Absent(i) \/ FailsOn(v.structure[i].validator, At(i))}
               IN /\ rs.k = "obj"
                  /\ DOMAIN rs.props = {v.structure[i].key : i \in Failing}
                  /\ \A i \in Failing :
                        LET child == rs.props[v.structure[i].key]
                        IN /\ IsValidationError(heap, child)
                           /\ IF Absent(i)
                              THEN /\ heap[child.addr].value = Str(v.structure[i].key)
                                   /\ heap[child.addr].reasons = Undef
                              ELSE Mirrors(v.structure[i].validator, At(i), child)
      [] v.kind = "and" ->
            IF FailsOn(v.first, x)
            THEN Mirrors(v.first, x, e)
            ELSE Mirrors(v.second, Apply(v.first, x, initial, <<>>).val, e)
      [] OTHER ->
            /\ heap[e.addr].value = x
            /\ heap[e.addr].reasons = Undef

\* C19: the reasons of the ValidationError thrown by nested aggregators mirror
\* the input: at each failing index or key stands the child aggregator's own
\* ValidationError, whose value is that child input and whose reasons locate
\* the failing leaves in turn, and there are entries only along the paths that
\* lead to a failing leaf.
C19_ReasonTreeMirrors ==
    (Done /\ ThrewValidationError) => Mirrors(validator, value, result.val)

\* [{a: ["a"]}, {a: [""]}]: reasons[1].reasons.a.reasons[0] is the leaf's error
\* about "", and reasons[0] is empty.
C19_Witness ==
    /\ Done
    /\ validator = Items(Keys(<<Entry("a", Items(StrRegex))>>, <<>>))
    /\ ThrewValidationError
    /\ IsRef(value)
    /\ Len(initial[value.addr].elems) = 2
    /\ LET top == heap[heap[result.val.addr].reasons.addr].elems
       IN /\ top[1] = Hole
          /\ top[2] # Hole
          /\ LET object == heap[top[2].addr]
                 array == heap[heap[object.reasons.addr].props["a"].addr]
                 leaf == heap[heap[array.reasons.addr].elems[1].addr]
             IN /\ object.message = <<"value does not match structure">>
                /\ array.message = <<"value is an array of invalid items">>
                /\ leaf.value = Str("")
                /\ leaf.reasons = Undef

----------------------------------------------------------------------------
(* Two invocations of one validator instance, interleaved.                 *)

PairLen == 2

\* array.items over a leaf that rejects and throws, and over a leaf that
\* transforms; obj.keys over both.
PairValidators ==
    {Items(StrRegex), Items(NumInteger),
     Keys(<<Entry("a", StrRegex), Entry("b", NumInteger)>>, <<>>)}

PairInputs(v) ==
    IF v.kind = "items"
    THEN {Arr(xs) : xs \in UNION {[1..n -> IF v.items = StrRegex
                                            THEN {Str("a"), Str(""), Num(15)}
                                            ELSE {Num(10), Num(15)}] : n \in 0..PairLen}}
    ELSE {Obj(pa @@ pb, EmptyProps) :
            pa \in {EmptyProps} \cup {("a" :> x) : x \in {Str("a"), Str(""), Num(15)}},
            pb \in {EmptyProps} \cup {("b" :> x) : x \in {Num(10), Num(15)}}}

\* Both invocations are about to begin, each with its own argument.
InitPair ==
    \E v \in PairValidators :
        \E o1 \in PairInputs(v), o2 \in PairInputs(v) :
            /\ validator = v
            /\ value = Ref(1)
            /\ initial = <<o1, o2>>
            /\ heap = <<o1, o2>>
            /\ calls = <<>>
            /\ pc = "call"
            /\ index = 0
            /\ output = Null
            /\ reasons = Null
            /\ result = NoResult
            /\ other = Locals(Ref(2), "call", 0, Null, Null, NoResult)

\* A faulty Switch: reasons is one variable that both invocations use.
SwitchSharedReasons ==
    /\ other # Idle
    /\ other' = Locals(value, pc, index, output, reasons, result)
    /\ value' = other.value
    /\ pc' = other.pc
    /\ index' = other.index
    /\ output' = other.output
    /\ result' = other.result
    /\ UNCHANGED <<validator, initial, heap, calls, reasons>>

\* The other invocation goes on where it stood: its argument and its locals
\* (index, output, reasons) are its own; the heap is the one heap there is.
Switch ==
    /\ other # Idle
    /\ other' = Locals(value, pc, index, output, reasons, result)
    /\ value' = other.value
    /\ pc' = other.pc
    /\ index' = other.index
    /\ output' = other.output
    /\ reasons' = other.reasons
    /\ result' = other.result
    /\ UNCHANGED <<validator, initial, heap, calls>>

NextPair ==
    \/ ItemsCall
    \/ ItemsIter
    \/ ItemsReturn
    \/ KeysCall
    \/ KeysIter
    \/ KeysReturn
    \/ Switch

SpecPair == InitPair /\ [][NextPair]_vars

----------------------------------------------------------------------------
(* C20 *)

\* What a value is, whatever the addresses of its parts.
RECURSIVE Deep(_, _)
Deep(h, x) ==
    IF ~IsRef(x) THEN x
    ELSE LET o == h[x.addr]
         IN CASE o.k = "arr" ->
                    [k |-> "arr", elems |-> [i \in DOMAIN o.elems |-> Deep(h, o.elems[i])]]
              [] o.k = "obj" ->
                    [k |-> "obj", props |-> [key \in DOMAIN o.props |-> Deep(h, o.props[key])]]
              [] o.k = "ValidationError" ->
                    [k |-> "ValidationError", message |-> o.message,
                     value |-> Deep(h, o.value), reasons |-> Deep(h, o.reasons)]
              [] OTHER -> o

\* The objects made since the start that x leads to.
RECURSIVE Reach(_)
Reach(x) ==
    IF ~IsRef(x) THEN {}
    ELSE (IF x.addr \in Made THEN {x.addr} ELSE {})
         \cup UNION {Reach(Ref(a)) : a \in RefsOf(heap[x.addr])}

\* The outcome r of the invocation on x is the one it has when run alone: the
\* same value returned (the argument itself where that is the argument
\* itself), or the same error thrown, with the same value and reasons.
AsAlone(x, r) ==
    LET alone == Apply(validator, x, initial, <<>>)
    IN /\ r.tag = alone.tag
       /\ Deep(heap, r.val) = Deep(alone.heap, alone.val)
       /\ (r.val = x) = (alone.val = x)

\* C20: two invocations of one validator instance may be interleaved element
\* by element or key by key, and one may follow another that a TypeError ended
\* part-way: each ends as it does when run alone, and the outputs and reasons
\* made by one are no part of what the other returns or throws.
C20_Isolation ==
    /\ Done => AsAlone(value, result)
    /\ other.pc = "done" => AsAlone(other.value, other.result)
    /\ (Done /\ other.pc = "done") => Reach(result.val) \cap Reach(other.result.val) = {}

\* Both invocations had collected a reason before either ended, and both ended
\* with a ValidationError.
C20_Witness ==
    /\ Done
    /\ other.pc = "done"
    /\ validator = Items(StrRegex)
    /\ initial = <<Arr(<<Str(""), Str("a")>>), Arr(<<Str(""), Str("")>>)>>
    /\ ThrewValidationError
    /\ IsValidationError(heap, other.result.val)
    /\ heap[result.val.addr].reasons.addr \in {4, 6}
    /\ heap[other.result.val.addr].reasons.addr \in {4, 6}

----------------------------------------------------------------------------
(* The DynamoDB decoders.                                                  *)

\* A faulty Decoder: the tag is expected at once, without nullable() before.
DecoderStrict(check, tag, inner, pick) ==
    And(And(check, Keys(<<Entry(tag, inner)>>, <<>>)), pick)

\* nullable().and(check).and(toi.obj.keys({ tag: inner })).and(pick())
Decoder(check, tag, inner, pick) ==
    And(And(And(Nullable, check), Keys(<<Entry(tag, inner)>>, <<>>)), pick)

\* What each decoder requires under its tag.
Base64Text == And(And(Required, StrIs), IsBase64)
NumberText == And(And(Required, StrIs), NumFormat)
NonEmptyArray == And(And(Required, ArrayIs), ArrayMin)

\* str.is(), strset.is(), num.is(), numset.is(), bool.is(), bin.is(),
\* binset.is(), list.is() and map.is(), by tag.
DecoderOf(tag) ==
    CASE tag = "S" -> Decoder(ObjIs, "S", And(Required, StrIs), Pick("dynamo.s", "S"))
      [] tag = "SS" ->
            Decoder(ObjIs, "SS", And(NonEmptyArray, Items(StrIs)), Pick("dynamo.ss", "SS"))
      [] tag = "N" -> Decoder(ObjIsPlain, "N", NumberText, Pick("dynamo.n", "N"))
      [] tag = "NS" ->
            Decoder(ObjIsPlain, "NS",
                    And(NonEmptyArray, Items(And(Required, And(StrIs, NumFormat)))),
                    Pick("dynamo.ns", "NS"))
      [] tag = "BOOL" ->
            Decoder(ObjIsPlain, "BOOL", And(Required, BoolIs), Pick("dynamo.bool", "BOOL"))
      [] tag = "B" -> Decoder(ObjIsPlain, "B", Base64Text, Pick("dynamo.b", "B"))
      [] tag = "BS" ->
            Decoder(ObjIsPlain, "BS", And(NonEmptyArray, Items(Base64Text)),
                    Pick("dynamo.bs", "BS"))
      [] tag = "L" -> Decoder(ObjIsPlain, "L", And(Required, ArrayIs), Pick("dynamo.l", "L"))
      [] tag = "M" ->
            Decoder(ObjIsPlain, "M", And(And(Required, ObjIs), ProperKeys),
                    Pick("dynamo.m", "M"))

Tags == {"S", "SS", "N", "NS", "BOOL", "B", "BS", "L", "M"}

\* Under each tag, a value its decoder takes and values it does not.
TagValues(tag) ==
    CASE tag = "S" -> {Str("a"), Num(15)}
      [] tag = "SS" -> {ArrT(<<Str("a")>>), ArrT(<<>>), ArrT(<<Num(15)>>)}
      [] tag = "N" -> {Str("1"), Str("a")}
      [] tag = "NS" -> {ArrT(<<Str("1")>>), ArrT(<<Str("a")>>)}
      [] tag = "BOOL" -> {Bool(TRUE), Str("a")}
      [] tag = "B" -> {Str("YQ=="), Str("a")}
      [] tag = "BS" -> {ArrT(<<Str("YQ==")>>), ArrT(<<Str("a")>>)}
      [] tag = "L" -> {ArrT(<<Str("a")>>), Str("a")}
      [] tag = "M" -> {ObjT(<<[key |-> "k", val |-> Str("a")]>>),
                       ObjT(<<[key |-> "", val |-> Str("a")]>>), Str("a")}

\* The DynamoDB null, and records that are nearly it.
NullRecord == ObjT(<<[key |-> "NULL", val |-> Bool(TRUE)]>>)
DynamoTrees(tag) ==
    {Null, Undef, Str("a"), NullRecord, ObjT(<<>>),
     ObjT(<<[key |-> "NULL", val |-> Bool(FALSE)]>>),
     ObjT(<<[key |-> "NULL", val |-> Str("a")]>>)}
    \cup {ObjT(<<[key |-> tag, val |-> x]>>) : x \in TagValues(tag)}
    \cup {ObjT(<<[key |-> "NULL", val |-> Bool(TRUE)], [key |-> tag, val |-> x]>>) :
            x \in TagValues(tag)}
    \cup {ObjT(<<[key |-> t, val |-> Str("a")]>>) : t \in {"S", "N"} \ {tag}}

\* NULL: true defined as a non-enumerable property.
HiddenNullRecord == HiddenObj(("NULL" :> Bool(TRUE)), {"NULL"}, EmptyProps)

DynamoInputs(tag) ==
    {Store(tree, <<>>) : tree \in DynamoTrees(tag)}
    \cup {[value |-> Ref(1), heap |-> <<HiddenNullRecord>>]}

InitDynamo ==
    \E tag \in Tags :
        \E in \in DynamoInputs(tag) :
            /\ validator = DecoderOf(tag)
            /\ value = in.value
            /\ initial = in.heap
            /\ heap = in.heap
            /\ calls = <<>>
            /\ pc = "call"
            /\ index = 0
            /\ output = Null
            /\ reasons = Null
            /\ result = NoResult
            /\ other = Idle

SpecDynamo == InitDynamo /\ [][Call]_vars

----------------------------------------------------------------------------
(* C21 *)

\* C21: every DynamoDB decoder, whatever the tag it expects, returns null for
\* the record whose only own property is NULL, enumerable and holding true,
\* returns null for null and returns undefined for undefined.
C21_NullDecodes ==
    Done =>
        /\ value \in {Null, Undef} => Returned(value)
        /\ (IsRef(value) /\ initial[value.addr] = Obj(("NULL" :> Bool(TRUE)), EmptyProps)) =>
                Returned(Null)

\* binset.is() decoded { NULL: true } into null.
C21_Witness ==
    /\ Done
    /\ validator = DecoderOf("BS")
    /\ IsRef(value)
    /\ initial[value.addr] = Obj(("NULL" :> Bool(TRUE)), EmptyProps)
    /\ Returned(Null)

----------------------------------------------------------------------------
(* C22 *)

\* The own enumerable keys of the input object.
InputKeys == DOMAIN initial[value.addr].props \ initial[value.addr].hidden

\* C22 (as claimed): obj.xor(fields) returns a non-null object given exactly
\* when exactly one of the fields is among its own enumerable keys, wherever
\* that key stands among the keys and whatever it holds, and throws a
\* ValidationError when none or more than one of them is.
C22_XorExactlyOne ==
    (Done /\ validator \in Xors /\ IsRef(value)) =>
        IF Cardinality({validator.fields[i] : i \in 1..Len(validator.fields)} \cap InputKeys) = 1
        THEN Returned(value)
        ELSE ThrewValidationError

----------------------------------------------------------------------------
(* C23 *)

\* The fields obj.and or obj.xor was built with.
Fields == {validator.fields[i] : i \in 1..Len(validator.fields)}

----------------------------------------------------------------------------
(* The first version of the library (src/toi.ts, src/validators): validators *)
(* are plain functions with map, and ValidationError carries a message only. *)

\* new ValidationError(msg) of the first version
LegacyValidationError(msg) == [k |-> "LegacyValidationError", message |-> msg]

\* stringator, numberator, objectator: the typeof tests of the base validators.
Ator(base, x, h, c) ==
    CASE base = "string" ->
            IF TypeOf(x) = "string" THEN Return(x, h, c)
            ELSE ThrowNew(LegacyValidationError(<<"Expected string got ", TypeOf(x)>>), h, c)
      [] base = "number" ->
            IF TypeOf(x) = "number" THEN Return(x, h, c)
            ELSE ThrowNew(LegacyValidationError(<<"Expected number got ", TypeOf(x)>>), h, c)
      [] base = "object" ->
            IF TypeOf(x) # "object"
            THEN ThrowNew(LegacyValidationError(<<"Expected object got ", TypeOf(x)>>), h, c)
            ELSE IF IsRef(x) /\ h[x.addr].k = "arr"
            THEN ThrowNew(LegacyValidationError(<<"Expected object got Array">>), h, c)
            ELSE Return(x, h, c)

\* optional(ator) and required(ator)
LegacyOptional(base, x, h, c) ==
    IF x = Null \/ x = Undef THEN Return(x, h, c) ELSE Ator(base, x, h, c)
LegacyRequired(base, x, h, c) ==
    IF x = Null THEN ThrowNew(LegacyValidationError(<<"Expected value got null">>), h, c)
    ELSE IF x = Undef
    THEN ThrowNew(LegacyValidationError(<<"Expected value got undefined">>), h, c)
    ELSE Ator(base, x, h, c)

\* it.trim() of the strings of the model
TrimString(x) == IF x = Str(" a ") THEN Str("a") ELSE x

\* trim(validator): validator.map(it => it ? it.trim() : it), given the
\* validator's outcome
Trimmed(r) ==
    IF r.tag = "throw" \/ Falsy(r.val) THEN r ELSE [r EXCEPT !.val = TrimString(@)]

\* A base validator of the first version: string, string.required, number,
\* number.required, object, object.required, and string.trim.
Base(base, required, trim) ==
    [kind |-> "legacy", base |-> base, required |-> required, trim |-> trim]

\* Calling a base validator.
BaseUntrimmed(v, x, h, c) ==
    IF v.required THEN LegacyRequired(v.base, x, h, c) ELSE LegacyOptional(v.base, x, h, c)
BaseRun(v, x, h, c) ==
    IF v.trim THEN Trimmed(BaseUntrimmed(v, x, h, c)) ELSE BaseUntrimmed(v, x, h, c)

\* valid(validator)(...items)
Valid(validator_, items) == [kind |-> "legacy.valid", validator |-> validator_, items |-> items]

\* items.forEach(item => { found = it === item }): found after the items.
RECURSIVE Found(_, _, _)
Found(it, items, found) ==
    IF items = <<>> THEN found
    ELSE Found(it, Tail(items), StrictEq(it, Head(items)))

\* The function valid maps over the validator, given the validator's outcome.
ValidMap(v, r) ==
    IF r.tag = "throw" THEN r
    ELSE IF ~Found(r.val, v.items, FALSE)
    THEN ThrowNew(LegacyValidationError(<<"Expected one of ", v.items, ", got ", r.val>>),
                  r.heap, r.calls)
    ELSE r

\* valid(validator)(...items) called on x
ValidRun(v, x, h, c) == ValidMap(v, BaseRun(v.validator, x, h, c))

\* The longest list of items valid is built with.
MaxItems == 2

\* The lists of items, the validators built with them, and their inputs.
ItemsOf(base) ==
    LET of == IF base = "string" THEN {Str("a"), Str("b"), Str("")}
              ELSE {Num(0), Num(10), NaN}
    IN UNION {[1..n -> of] : n \in 0..MaxItems}
Valids ==
    {Valid(Base("string", required, trim), items) :
        required \in BOOLEAN, trim \in BOOLEAN, items \in ItemsOf("string")}
    \cup {Valid(Base("number", required, FALSE), items) :
            required \in BOOLEAN, items \in ItemsOf("number")}
ValidInputs == Primitives \cup {Str("b"), Str(" a ")}

\* object.structure(structure, ...optional) of validator_; structure lists the
\* keys in the order of Object.keys(structure).
Structure(validator_, structure, optional) ==
    [kind |-> "legacy.structure", validator |-> validator_, structure |-> structure,
     optional |-> optional]

\* The key validator of the structure test: a function that throws a plain
\* Error on what is not a number.
NumTest == [kind |-> "test.num"]
NotANumber == [k |-> "Error", message |-> <<"Not a number">>]

\* structureAny[key](value)
KeyRun(v, x, h, c) ==
    IF v.kind = "test.num"
    THEN IF TypeOf(x) = "number" THEN Return(x, h, c) ELSE ThrowNew(NotANumber, h, c)
    ELSE BaseRun(v, x, h, c)

\* What every object made by {} inherits from Object.prototype (some of it).
ObjectPrototype == {"toString", "constructor"}

\* marks[key] is truthy, where marks is an object made by {} and given the
\* property true under each of keys.
Marked(keys, key) == key \in keys \/ key \in ObjectPrototype

\* The keys in a sequence of keys.
KeySet(keys) == {keys[i] : i \in 1..Len(keys)}

\* Object.keys(mandatoryStructure): the keys of the structure that
\* optionalStructure does not mark, in the order of the structure.
MandatoryKeys(v) ==
    LET Unmarked(e) == ~Marked(KeySet(v.optional), e.key)
        mandatory == SelectSeq(v.structure, Unmarked)
    IN [i \in 1..Len(mandatory) |-> mandatory[i].key]

\* structureAny[key]
StructureAny(v, key) == (CHOOSE e \in KeySet(v.structure) : e.key = key).validator

\* The locals of one call of the function structure maps over the validator.
StructFrame(it, h, c) == [it |-> it, index |-> 0, errors |-> 0, heap |-> h, calls |-> c]

\* try { itAny[key] = structureAny[key](itAny[key]) } catch (e) { errors.push(e) },
\* given the outcome r of the key validator
StructStore(f, key, r) ==
    IF r.tag = "return"
    THEN [f EXCEPT !.heap = SetProp(r.heap, f.it, key, r.val), !.calls = r.calls,
                   !.index = @ + 1]
    ELSE [f EXCEPT !.heap = r.heap, !.calls = r.calls, !.index = @ + 1, !.errors = @ + 1]

\* The callback of keys.forEach for the key at f.index.
StructBody(v, keys, f) ==
    StructStore(f, keys[f.index + 1],
                KeyRun(StructureAny(v, keys[f.index + 1]),
                       Get(f.heap, f.it, keys[f.index + 1]), f.heap, f.calls))

RECURSIVE StructLoop(_, _, _)
StructLoop(v, keys, f) ==
    IF f.index < Len(keys) THEN StructLoop(v, keys, StructBody(v, keys, f)) ELSE f

\* The keys Object.keys(it).forEach pushes an "Unexpected key" error for: those
\* strictKeys does not mark.
UnexpectedKeys(strict, keys) ==
    LET Unmarked(key) == ~Marked(strict, key)
    IN SelectSeq(keys, Unmarked)

\* The end of the mapped function: the errors of the unexpected keys are made,
\* and any error at all makes the ValidationError thrown.
StructFinish(f, unexpected) ==
    IF f.errors + Len(unexpected) > 0
    THEN ThrowNew(LegacyValidationError(<<"Multiple structure errors">>),
                  f.heap \o [i \in 1..Len(unexpected) |->
                                LegacyValidationError(<<"Unexpected key ", unexpected[i]>>)],
                  f.calls)
    ELSE Return(f.it, f.heap, f.calls)

\* The mapped function after keys.forEach.
StructCheck(v, f) ==
    StructFinish(f, UnexpectedKeys(KeySet(MandatoryKeys(v)) \cup KeySet(v.optional),
                                   KeysArray(f.heap, f.it)))

\* The function structure maps over the validator, given the validator's outcome.
StructMap(v, r) ==
    IF r.tag = "throw" \/ Falsy(r.val) THEN r
    ELSE StructCheck(v, StructLoop(v, MandatoryKeys(v), StructFrame(r.val, r.heap, r.calls)))

\* object.structure(structure, ...optional) called on x
StructureRun(v, x, h, c) == StructMap(v, BaseRun(v.validator, x, h, c))

\* The structures of the model: a, b and c hold numbers; none of them, c, or b
\* and c are optional.
Structures3 ==
    {Structure(Base("object", required, FALSE),
               <<Entry("a", kv), Entry("b", kv), Entry("c", kv)>>, optional) :
        required \in BOOLEAN, kv \in {NumTest, Base("number", TRUE, FALSE)},
        optional \in {<<>>, <<"c">>, <<"b", "c">>}}

\* The objects given to them: a, b and c absent, a number or a string; d and
\* toString absent or a number; b inherited or not.
StructProps ==
    {pa @@ pb @@ qc @@ pd @@ pt :
        pa \in {EmptyProps, ("a" :> Num(10)), ("a" :> Str("x"))},
        pb \in {EmptyProps, ("b" :> Num(10)), ("b" :> Str("x"))},
        qc \in {EmptyProps, ("c" :> Num(10)), ("c" :> Str("x"))},
        pd \in {EmptyProps, ("d" :> Num(10))},
        pt \in {EmptyProps, ("toString" :> Num(10))}}
StructInputs ==
    {Input(x, <<>>) : x \in {Null, Undef, Num(0), Str("")}}
    \cup {Input(Ref(1), <<Arr(<<>>)>>)}
    \cup {Input(Ref(1), <<Obj(props, proto)>>) :
            props \in StructProps, proto \in {EmptyProps, ("b" :> Num(10))}}

LegacyInputs(v) ==
    IF v.kind = "legacy.valid" THEN {Input(x, <<>>) : x \in ValidInputs} ELSE StructInputs

InitLegacy ==
    \E v \in Valids \cup Structures3 :
        \E in \in LegacyInputs(v) :
            /\ validator = v
            /\ value = in.value
            /\ initial = in.heap
            /\ heap = in.heap
            /\ calls = <<>>
            /\ pc = "call"
            /\ index = 0
            /\ output = Null
            /\ reasons = Null
            /\ result = NoResult
            /\ other = Idle

\* valid(validator)(...items)(value)
ValidCall ==
    /\ pc = "call"
    /\ validator.kind = "legacy.valid"
    /\ Finish(ValidRun(validator, value, heap, calls))
    /\ UNCHANGED <<validator, value, initial, other, index, output, reasons>>

\* object.structure(structure, ...optional)(value)
StructureCall ==
    /\ pc = "call"
    /\ validator.kind = "legacy.structure"
    /\ Finish(StructureRun(validator, value, heap, calls))
    /\ UNCHANGED <<validator, value, initial, other, index, output, reasons>>

NextLegacy ==
    \/ ValidCall
    \/ StructureCall

SpecLegacy == InitLegacy /\ [][NextLegacy]_vars

----------------------------------------------------------------------------
(* C24 *)

\* A ValidationError of the first version was thrown.
ThrewLegacy ==
    /\ result.tag = "throw"
    /\ IsRef(result.val)
    /\ heap[result.val.addr].k = "LegacyValidationError"

\* What the validator valid was built on makes of the input.
Validated == BaseRun(validator.validator, value, initial, <<>>)

\* C24 (as claimed): valid(validator)(...items) returns the validated value
\* when it is strictly equal to any of the listed items, whatever the position
\* of that item in the list, and throws a ValidationError only when it is equal
\* to none of them.
C24_ValidAnyItem ==
    (Done /\ validator.kind = "legacy.valid" /\ Validated.tag = "return") =>
        IF \E i \in 1..Len(validator.items) : StrictEq(Validated.val, validator.items[i])
        THEN Returned(Validated.val)
        ELSE ThrewLegacy

----------------------------------------------------------------------------
(* C25 *)

\* The keys the structure declares, and those of them not listed as optional.
StructKeys == {validator.structure[i].key : i \in 1..Len(validator.structure)}
NonOptional == StructKeys \ KeySet(validator.optional)

\* The input object has key k itself and k's validator passes what it holds.
KeyPasses(k) ==
    /\ k \in DOMAIN initial[value.addr].props
    /\ KeyRun(StructureAny(validator, k), initial[value.addr].props[k], initial, <<>>).tag
            = "return"

\* C25 (as claimed): object.structure(structure, ...optional) accepts a
\* non-null object exactly when every declared key that is not optional is
\* there and passes its validator and the object has no key outside the
\* structure; otherwise it throws. An optional key, absent or present,
\* changes nothing.
C25_StructureAccepts ==
    (Done /\ validator.kind = "legacy.structure" /\ IsRef(value)
          /\ initial[value.addr].k = "obj") =>
        IF /\ \A k \in NonOptional : KeyPasses(k)
           /\ InputKeys \subseteq StructKeys
        THEN result.tag = "return" /\ result.val = value
        ELSE ThrewLegacy

----------------------------------------------------------------------------
(* C26 *)

\* The invocations of the item validator so far, in the order they were made.
ItemCalls ==
    LET OfItems(e) == e.site = "validator" /\ e.v = validator.items
    IN SelectSeq(calls, OfItems)

\* The item validator throws something that is not a ValidationError on x.
DefectOn(x) == Defect(Apply(validator.items, x, initial, <<>>))

\* C26: array.items invokes the item validator on the indices 0 .. n - 1 in
\* strictly increasing order, once per index, and goes on past an index whose
\* validation failed with a ValidationError; an error of another class at index
\* i ends the visit: no greater index is visited.
C26_VisitationOrder ==
    ItemsOnArray =>
        /\ \A i \in 1..Len(ItemCalls) : ItemCalls[i].arg = ElemAt(initial, value, i - 1)
        /\ pc = "items" => Len(ItemCalls) = index
        /\ (Done /\ ~ThrewDefect) => Len(ItemCalls) = Length(initial, value)
        /\ (Done /\ ThrewDefect) =>
                /\ Len(ItemCalls) \in 1..Length(initial, value)
                /\ DefectOn(ItemCalls[Len(ItemCalls)].arg)
                /\ \A i \in 1..(Len(ItemCalls) - 1) : ~DefectOn(ItemCalls[i].arg)

\* The first element failed with a ValidationError, the second made the item
\* validator throw another error, and the third, a different one, was not visited.
C26_Witness ==
    /\ ItemsOnArray
    /\ Done
    /\ ThrewDefect
    /\ Length(initial, value) = 3
    /\ Len(ItemCalls) = 2
    /\ FailsOn(validator.items, ElemAt(initial, value, 0))
    /\ ElemAt(initial, value, 2) # ElemAt(initial, value, 0)

----------------------------------------------------------------------------
(* C27 *)

\* The structure of the validator with its keys declared in another order.
Reorderings ==
    LET n == Len(validator.structure)
    IN {[i \in 1..n |-> validator.structure[p[i]]] :
            p \in {q \in [1..n -> 1..n] : \A i, j \in 1..n : q[i] = q[j] => i = j}}

\* What can be seen of an outcome: the record returned, as a map, or the value
\* and the reasons map of the error thrown.
Observable(h, r) ==
    IF r.tag = "return" THEN <<"return", Deep(h, r.val)>>
    ELSE IF IsValidationError(h, r.val)
    THEN <<"throw", Deep(h, h[r.val.addr].value), Deep(h, h[r.val.addr].reasons)>>
    ELSE <<"throw", Deep(h, r.val)>>

\* The own keys of the record x refers to; none where x is null.
KeysOf(x) == IF IsRef(x) THEN DOMAIN heap[x.addr].props ELSE {}

\* C27: provided no key validator throws an error that is no ValidationError,
\* obj.keys attempts every declared key whatever became of the keys before it,
\* and what can be seen of the outcome (the output record, or the value and the
\* reasons map of the error) is the same for every order in which the declared
\* keys are visited.
C27_OrderIndependent ==
    (Done /\ validator.kind = "keys" /\ IsRef(value) /\ ~ThrewDefect) =>
        /\ KeysOf(output) \cup KeysOf(reasons) = Declared
        /\ \A s \in Reorderings :
                LET r == KeysRun([validator EXCEPT !.structure = s], value, initial, <<>>)
                IN Observable(r.heap, r) = Observable(heap, result)

\* Two keys were declared and both failed: the first failure did not keep the
\* second key from being attempted.
C27_Witness ==
    /\ Done
    /\ validator.kind = "keys"
    /\ IsRef(value)
    /\ Len(validator.structure) = 2
    /\ ThrewValidationError
    /\ KeysOf(reasons) = Declared

----------------------------------------------------------------------------
(* C28 *)

\* C28: array.items and obj.keys never modify their input: at every point of
\* an invocation, and after it has returned, thrown a ValidationError or been
\* ended by another error, the input array has the elements and the input
\* object the keys and values it had before the call (as has every object that
\* existed then); what the validators make is written to new objects only.
C28_InputUnchanged ==
    validator.kind \in {"items", "keys"} =>
        \A a \in 1..Len(initial) : a \in 1..Len(heap) /\ heap[a] = initial[a]

\* array.items has returned a new array that differs from the input array.
C28_Witness ==
    /\ ItemsOnArray
    /\ Done
    /\ result.tag = "return"
    /\ result.val # value
    /\ Deep(heap, result.val) # Deep(initial, value)

----------------------------------------------------------------------------
(* C29 *)

\* What the input holds under key k itself: undefined when it has no such key.
OwnValue(k) == IF HasOwn(initial, value, k) THEN initial[value.addr].props[k] ELSE Undef

\* C29 (as claimed): when obj.keys succeeds on an object, the own keys of the
\* record it returns are exactly the declared keys, each holding what its key
\* validator returns for the input's value under that key, and for undefined
\* where an allowed-missing key is absent from the input; with no declared
\* key the record is empty whatever the input holds.
C29_OutputKeys ==
    (Done /\ KeysOnObject /\ result.tag = "return") =>
        /\ IsRef(result.val)
        /\ result.val.addr \notin 1..Len(initial)
        /\ DOMAIN heap[result.val.addr].props = Declared
        /\ \A k \in Declared :
                heap[result.val.addr].props[k]
                    = Apply(ValidatorOf(k), OwnValue(k), initial, <<>>).val

----------------------------------------------------------------------------
(* C30 *)

\* C30: array.items returns every falsy input as it is (0, NaN, the empty
\* string and false as well as null and undefined): the item validator is not
\* invoked, nothing is thrown and nothing is made, so a falsy value that is no
\* array is accepted by array.items on its own.
C30_FalsyReturned ==
    (Done /\ validator.kind = "items"
          /\ value \in {Num(0), NaN, Str(""), Bool(FALSE), Null, Undef}) =>
        /\ Returned(value)
        /\ ItemCalls = <<>>
        /\ heap = initial

\* array.items has been given 0 or the empty string.
C30_Witness ==
    /\ Done
    /\ validator.kind = "items"
    /\ value \in {Num(0), Str("")}
    /\ result.tag = "return"

====
